---------------------------- MODULE Spec2Model ----------------------------
(***************************************************************************)
(* Verification model of the Local Gate context-pack engine                *)
(* (src/unnamed/part_002, second bundle, and src/search-ranker.js).        *)
(*                                                                         *)
(* Text is a sequence of symbols.  A symbol is a string standing for one   *)
(* lexical unit of the JavaScript string: a word, a blank, a line break,   *)
(* a slash, a reference token, or a fixed fragment of a sentence the       *)
(* plugin writes.  The regular expressions of the source are operators     *)
(* over such sequences.                                                    *)
(***************************************************************************)
EXTENDS Integers, Sequences, FiniteSets, TLC

VARIABLES
  settings,     \* this.settings: contextPacks and the context-pack switches
  rankerLoaded, \* whether require("./search-ranker") succeeded at load
  viewText,     \* the chat view's input state text (raw, as the host holds it)
  snapshot,     \* this.__contextPackInputSnapshots entry of the view
  now,          \* clock behind Date.now(): the number of operations so far
  op,           \* the last two engine operations and what they returned (history)
  pure,         \* inputs and results of the function harnesses
  heap,         \* the objects of the arguments of the last send call
  send          \* the last call of a wrapped send method and its outcome

vars == <<settings, rankerLoaded, viewText, snapshot, now, op, pure, heap, send>>

(***************************************************************************)
(* Symbols and string primitives                                           *)
(***************************************************************************)
SP == "sp"
NL == "nl"

IsSpace(c) == c \in {SP, NL}

Max(a, b) == IF a >= b THEN a ELSE b
Min(a, b) == IF a <= b THEN a ELSE b

\* a sequence given element by element, evaluated once
AsSeq(f) == f \o <<>>
\* the element of a set of one element ({F(x) : x \in {e}} is F of the value
\* of e, with e evaluated once)
TheOne(S) == CHOOSE r \in S : TRUE

InSeq(s, x) == \E i \in 1..Len(s) : s[i] = x

RECURSIVE Flatten(_)
Flatten(ss) == IF ss = <<>> THEN <<>> ELSE Head(ss) \o Flatten(Tail(ss))

RECURSIVE JoinWith(_, _)
JoinWith(ss, sep) ==
  IF ss = <<>> THEN <<>>
  ELSE IF Len(ss) = 1 THEN Head(ss)
  ELSE Head(ss) \o sep \o JoinWith(Tail(ss), sep)

RECURSIVE TrimLeft(_)
TrimLeft(s) ==
  IF s = <<>> THEN <<>>
  ELSE IF IsSpace(Head(s)) THEN TrimLeft(Tail(s)) ELSE s

RECURSIVE TrimRight(_)
TrimRight(s) ==
  IF s = <<>> THEN <<>>
  ELSE IF IsSpace(s[Len(s)]) THEN TrimRight(SubSeq(s, 1, Len(s) - 1)) ELSE s

\* String.prototype.trim
Trim(s) == TrimRight(TrimLeft(s))

\* sanitizeString(value, ""): the trimmed string ("" when nothing is left)
sanitizeString(s) == Trim(s)

\* String.prototype.includes
Includes(s, sub) ==
  \E i \in 1..(Len(s) - Len(sub) + 1) : SubSeq(s, i, i + Len(sub) - 1) = sub

\* number of (possibly overlapping) occurrences of sub in s
Occurrences(s, sub) ==
  Cardinality({i \in 1..(Len(s) - Len(sub) + 1) : SubSeq(s, i, i + Len(sub) - 1) = sub})

\* .replace(/\s+/g, " ")
RECURSIVE CollapseWhitespace(_)
CollapseWhitespace(s) ==
  IF s = <<>> THEN <<>>
  ELSE IF IsSpace(Head(s))
       THEN <<SP>> \o CollapseWhitespace(TrimLeft(s))
       ELSE <<Head(s)>> \o CollapseWhitespace(Tail(s))

Digit(n) == <<"0", "1", "2", "3", "4", "5", "6", "7", "8", "9">>[n + 1]

\* `${n}` for a non-negative integer
RECURSIVE NumSyms(_)
NumSyms(n) == IF n < 10 THEN <<Digit(n)>> ELSE NumSyms(n \div 10) \o <<Digit(n % 10)>>

(***************************************************************************)
(* src/search-ranker.js: tokenizer, scorer, ranker                         *)
(* Scores are kept exact by scaling every term by ScoreScale (200).        *)
(***************************************************************************)
\* symbols that /[^a-z0-9가-힣_\-/:.\s]/g turns into a blank, and the blanks
SepSyms == {SP, NL, "$&", "(", ")", "[[", "]]", "@", ",", "[omit]", "[link]"}

\* fixed fragments of text the plugin writes; each holds blanks and
\* punctuation, so it ends the token before it and is a token of its own
PhraseSyms ==
  {"G(", ")G", "R(", ")R", "[CP", ":", ",inl]", "]", ":none]",
   "-[folder]", "-[count]", "-[doc", "(nopreview)", "selnotes",
   "@p1", "@P1", "@p2", "@p3"}

\* symbols that stand for a single character
OneCharSyms == {"/", "0", "1", "2", "3", "4", "5", "6", "7", "8", "9"}

TokClass(c) ==
  IF c \in SepSyms THEN "sep" ELSE IF c \in PhraseSyms THEN "phrase" ELSE "part"

\* number of characters of a token, as far as "length >= 2" needs it
CharLen(tok) ==
  IF tok = <<>> THEN 0
  ELSE IF Len(tok) = 1 /\ tok[1] \in OneCharSyms THEN 1 ELSE 2

EmitToken(out, cur) == IF CharLen(cur) >= 2 THEN Append(out, cur) ELSE out

RECURSIVE TokScan(_, _, _)
TokScan(s, cur, out) ==
  IF s = <<>> THEN EmitToken(out, cur)
  ELSE LET c == Head(s) IN
       CASE TokClass(c) = "part" -> TokScan(Tail(s), Append(cur, c), out)
         [] TokClass(c) = "sep" -> TokScan(Tail(s), <<>>, EmitToken(out, cur))
         [] OTHER -> TokScan(Tail(s), <<>>, Append(EmitToken(out, cur), <<c>>))

\* sanitizeText of search-ranker.js
sanitizeText(s) == Trim(s)

\* tokenize(text): the sequence of tokens (a token is a sequence of symbols)
SeqSet(q) == {q[i] : i \in 1..Len(q)}

tokenize(text) == TokScan(sanitizeText(text), <<>>, <<>>)

tokenSet(text) == SeqSet(tokenize(text))

\* overlapScore(queryTokens, targetSet, weight)
overlapScore(queryTokens, targetSet, weight) ==
  IF Len(queryTokens) = 0 \/ targetSet = {} THEN 0
  ELSE Cardinality({i \in 1..Len(queryTokens) : queryTokens[i] \in targetSet}) * weight

ScoreScale == 200
PathWeight == 480      \* 2.4 * ScoreScale
PreviewWeight == 220   \* 1.1 * ScoreScale
DefaultTopK == 8

\* A JavaScript number option: isNum is FALSE for a value Number() turns into
\* NaN (undefined, a non-numeric string); half is twice the number, so that
\* halves (2.5) are representable.
NumVal(h) == [isNum |-> TRUE, half |-> h]
NotANumber == [isNum |-> FALSE, half |-> 0]

\* a rule that takes every topK below 1 for a missing one (variant of
\* EffectiveTopKHalf)
topKDefaultBelowOne(topK) ==
  IF topK.isNum /\ topK.half >= 2 THEN topK.half ELSE 2 * DefaultTopK

\* Math.max(1, Number(options.topK) || 8), times two
EffectiveTopKHalf(topK) ==
  Max(2, IF topK.isNum /\ topK.half # 0 THEN topK.half ELSE 2 * DefaultTopK)

\* buildFolderWeightMap(folderPaths): folder -> weight * ScoreScale; a folder
\* listed twice keeps the weight of its last index
buildFolderWeightMap(folderPaths) ==
  LET raw == AsSeq([i \in 1..Len(folderPaths) |-> sanitizeText(folderPaths[i])])
      keep == {i \in 1..Len(raw) : raw[i] # <<>>}
      idx(i) == Cardinality({j \in keep : j < i})
      last(f) == CHOOSE i \in keep : raw[i] = f /\ \A j \in keep : raw[j] = f => j <= i
  IN [f \in {raw[i] : i \in keep} |-> Max(50, ScoreScale - 16 * idx(last(f)))]

FolderBoost(folderWeights, folderPath) ==
  IF folderPath \in DOMAIN folderWeights THEN folderWeights[folderPath] ELSE 0

\* a score with the positional bonus whatever the query (variant of ItemScore)
ItemScoreBonusAlways(items, i, queryTokens, folderWeights) ==
  overlapScore(queryTokens,
               tokenSet(sanitizeText(items[i].path) \o <<SP>> \o sanitizeText(items[i].mentionPath)),
               PathWeight)
  + overlapScore(queryTokens, tokenSet(sanitizeText(items[i].preview)), PreviewWeight)
  + FolderBoost(folderWeights, sanitizeText(items[i].folderPath))
  + Max(0, ScoreScale - (i - 1))

\* the score of items[i] (i is 1-based here, index = i - 1 in the source)
ItemScore(items, i, queryTokens, folderWeights) ==
  overlapScore(queryTokens,
               tokenSet(sanitizeText(items[i].path) \o <<SP>> \o sanitizeText(items[i].mentionPath)),
               PathWeight)
  + overlapScore(queryTokens, tokenSet(sanitizeText(items[i].preview)), PreviewWeight)
  + FolderBoost(folderWeights, sanitizeText(items[i].folderPath))
  + (IF Len(queryTokens) = 0 THEN Max(0, ScoreScale - (i - 1)) ELSE 0)

\* the indices of items in the order .sort() leaves them: score descending,
\* then index ascending
\* a sort that leaves the entries where they are (variant of OrderByScore)
OrderByIndex(sc) == AsSeq([k \in 1..Len(sc) |-> k])

OrderByScore(sc) ==
  AsSeq([k \in 1..Len(sc) |->
           CHOOSE i \in 1..Len(sc) :
             k = 1 + Cardinality({j \in 1..Len(sc) :
                                    sc[j] > sc[i] \/ (sc[j] = sc[i] /\ j < i)})])

\* items.map((item, index) => ({ item, score, index })): the scores
ScoreAll(items, queryTokens, folderWeights) ==
  AsSeq([i \in 1..Len(items) |-> ItemScore(items, i, queryTokens, folderWeights)])

SortedIndices(items, queryTokens, folderWeights) ==
  OrderByScore(ScoreAll(items, queryTokens, folderWeights))

\* key of an item in search-ranker.js: sanitizeText(mentionPath || path)
RankerKey(item) ==
  sanitizeText(IF item.mentionPath # <<>> THEN item.mentionPath ELSE item.path)

\* key of an item in the fallback ranker of main.js: both trimmed first
FallbackKey(item) ==
  IF Trim(item.mentionPath) # <<>> THEN Trim(item.mentionPath) ELSE Trim(item.path)

\* the smallest integer that is at least h / 2
CeilHalf(h) == (h + 1) \div 2

\* a loop that takes the entries as they come, whatever their keys (variant
\* of DedupTake)
TakeWithoutDedup(items, order, k, seen, out, ctx) ==
  SubSeq(order, 1, Min(Len(order), CeilHalf(ctx.topKHalf)))

\* the loop "for (const entry of ...) { if (!key || seen.has(key)) continue; ...
\* if (out.length >= topK) break; }" over the item indices in `order`
RECURSIVE DedupTake(_, _, _, _, _, _)
DedupTake(items, order, k, seen, out, ctx) ==
  IF k > Len(order) THEN out
  ELSE TheOne({IF key = <<>> \/ key \in seen
               THEN DedupTake(items, order, k + 1, seen, out, ctx)
               ELSE IF 2 * (Len(out) + 1) >= ctx.topKHalf
                    THEN Append(out, order[k])
                    ELSE DedupTake(items, order, k + 1, seen \cup {key}, Append(out, order[k]), ctx) :
               key \in {IF ctx.fallback THEN FallbackKey(items[order[k]])
                        ELSE RankerKey(items[order[k]])}})

\* rankContextPackItems of search-ranker.js; returns the indices (1-based) of
\* the returned items, in output order
RankIndicesSidecar(items, options) ==
  DedupTake(items,
            SortedIndices(items, tokenize(sanitizeText(options.query)), options.folderWeights),
            1, {}, <<>>,
            [fallback |-> FALSE, topKHalf |-> EffectiveTopKHalf(options.topK)])

\* the fallback rankContextPackItems of main.js (sidecar module missing)
RankIndicesFallback(items, options) ==
  DedupTake(items, AsSeq([k \in 1..Len(items) |-> k]), 1, {}, <<>>,
            [fallback |-> TRUE, topKHalf |-> EffectiveTopKHalf(options.topK)])

RankIndices(items, options, sidecar) ==
  IF sidecar THEN RankIndicesSidecar(items, options) ELSE RankIndicesFallback(items, options)

\* the returned items themselves
PickItems(items, ix) == AsSeq([k \in 1..Len(ix) |-> items[ix[k]]])

rankContextPackItems(items, options, sidecar) ==
  PickItems(items, RankIndices(items, options, sidecar))

(***************************************************************************)
(* Context packs: sanitizers of the stored history                         *)
(***************************************************************************)
ContextPackHistoryCap == 40

NoPack == [id |-> ""]

\* sanitizeContextPackItem(rawItem): <<item>> or <<>> (null)
sanitizeContextPackItem(rawItem) ==
  LET path == sanitizeString(rawItem.path)
      mentionPath == sanitizeString(rawItem.mentionPath)
  IN IF path = <<>> \/ mentionPath = <<>> THEN <<>>
     ELSE <<[path |-> path, mentionPath |-> mentionPath,
             preview |-> sanitizeString(rawItem.preview),
             folderPath |-> sanitizeString(rawItem.folderPath)]>>

\* sanitizeStringArray(value): trimmed entries, empty ones dropped
sanitizeStringArray(arr) ==
  Flatten(AsSeq([i \in 1..Len(arr) |-> IF Trim(arr[i]) = <<>> THEN <<>> ELSE <<Trim(arr[i])>>]))

FallbackPackId(index) == <<"pack-1", "pack-2", "pack-3", "pack-4">>[index + 1]

\* sanitizeContextPack(rawPack, index)
sanitizeContextPack(rawPack, index) ==
  LET items == Flatten(AsSeq([i \in 1..Len(rawPack.items) |-> sanitizeContextPackItem(rawPack.items[i])]))
      filePaths == sanitizeStringArray(rawPack.filePaths)
  IN [id |-> IF rawPack.id = "" THEN FallbackPackId(index) ELSE rawPack.id,
      createdAt |-> rawPack.createdAt,
      sourceFolders |-> sanitizeStringArray(rawPack.sourceFolders),
      filePaths |-> IF Len(filePaths) > 0 THEN filePaths
                    ELSE AsSeq([i \in 1..Len(items) |-> items[i].path]),
      items |-> items,
      totalFiles |-> Max(Len(items), Len(filePaths)),
      topK |-> NumVal(EffectiveTopKHalf(rawPack.topK)),
      lastUsedAt |-> rawPack.lastUsedAt]

\* rawPacks.forEach((entry, index) => { const item = sanitizeContextPack(entry, index); ... })
SanitizeAll(rawPacks) ==
  AsSeq([k \in 1..Len(rawPacks) |-> sanitizeContextPack(rawPacks[k], k - 1)])

\* if (!item.id || seen.has(item.id)) return; seen.add(item.id); result.push(item)
KeepFirstOfId(packs) ==
  Flatten(AsSeq([k \in 1..Len(packs) |->
            IF packs[k].id = "" \/ \E j \in 1..(k - 1) : packs[j].id = packs[k].id
            THEN <<>> ELSE <<packs[k]>>]))

\* normalizeContextPacks(rawPacks)
normalizeContextPacks(rawPacks) ==
  TheOne({SubSeq(result, 1, Min(Len(result), ContextPackHistoryCap)) :
           result \in {KeepFirstOfId(SanitizeAll(rawPacks))}})

\* a history in which no id is ever found (variant of findContextPack used to
\* test the missing-id rule)
findNothing(packs, packId) == NoPack

\* findContextPack(packId): the first pack with that id, or NoPack (null)
findContextPack(packs, packId) ==
  IF packId = "" \/ ~\E i \in 1..Len(packs) : packs[i].id = packId THEN NoPack
  ELSE packs[CHOOSE i \in 1..Len(packs) :
               packs[i].id = packId /\ \A j \in 1..(i - 1) : packs[j].id # packId]

(***************************************************************************)
(* Reference tokens: CONTEXT_PACK_REF_REGEX, /@context-pack\(<id>\)/gi      *)
(***************************************************************************)
\* the reference tokens of the model's texts; "@P1" is "@p1" with the id
\* written in upper case
RefSyms == {"@p1", "@P1", "@p2", "@p3"}

\* match[1].toLowerCase() of a reference token
RefId(c) ==
  CASE c \in {"@p1", "@P1"} -> "p1"
    [] c = "@p2" -> "p2"
    [] c = "@p3" -> "p3"
    [] OTHER -> ""

RECURSIVE CollectIds(_, _)
CollectIds(s, ids) ==
  IF s = <<>> THEN ids
  ELSE LET c == Head(s)
       IN CollectIds(Tail(s),
                     IF c \in RefSyms /\ ~InSeq(ids, RefId(c)) THEN Append(ids, RefId(c)) ELSE ids)

\* getContextPackIdsFromText(text): distinct lower-cased ids, in order of
\* first appearance
getContextPackIdsFromText(text) == CollectIds(sanitizeString(text), <<>>)

\* new RegExp(CONTEXT_PACK_REF_REGEX.source, "i").test(text)
HasReference(text) == \E i \in 1..Len(text) : text[i] \in RefSyms

\* text.replace(CONTEXT_PACK_REF_REGEX, " ")
BlankReferences(text) == AsSeq([i \in 1..Len(text) |-> IF text[i] \in RefSyms THEN SP ELSE text[i]])

\* String.prototype.replace(regex, replacement) with a string replacement:
\* "$&" in the replacement stands for the matched substring
SubstituteMatch(replacement, matched) ==
  AsSeq([i \in 1..Len(replacement) |-> IF replacement[i] = "$&" THEN matched ELSE replacement[i]])

\* nextText.replace(tokenRegex, replacement): every token of that id, in any
\* letter case
ReplaceToken(text, id, replacement) ==
  Flatten(AsSeq([i \in 1..Len(text) |->
            IF text[i] \in RefSyms /\ RefId(text[i]) = id
            THEN SubstituteMatch(replacement, text[i])
            ELSE <<text[i]>>]))

(***************************************************************************)
(* Fixed sentences                                                         *)
(***************************************************************************)
ToolList == <<"List", "/", "Search", "/", "Glob", "/", "Read">>

\* "[지시] ... 도구(List/Search/Glob/Read)를 ... (Use only provided context.)"
INLINE_CONTEXT_ONLY_GUIDANCE == <<"G(">> \o ToolList \o <<")G">>

\* "[Context Rule] Use only the supplied context. Do not call filesystem
\*  tools (List/Search/Glob/Read)."
INLINE_CONTEXT_ONLY_GUARD == <<"R(">> \o ToolList \o <<")R">>

(***************************************************************************)
(* Path redaction                                                          *)
(*                                                                         *)
(* A word symbol stands for one or more characters of [A-Za-z0-9]; every   *)
(* other symbol but "/" begins and ends with a character outside           *)
(* [A-Za-z0-9._-], so \b falls exactly at the ends of a run of word        *)
(* symbols.  The model's texts hold no backslash, no "file://", no "./"    *)
(* and no "[[": the replacements for those are the identity here.          *)
(***************************************************************************)
IsWordSym(c) == TokClass(c) = "part" /\ c # "/"

PLACEHOLDER == "[omit]"   \* "[경로생략]"

MinSlashGroups == 2   \* the {2,} of (?:[A-Za-z0-9._-]+\/){2,}

RECURSIVE WordRunEnd(_, _)
WordRunEnd(s, i) == IF i < Len(s) /\ IsWordSym(s[i + 1]) THEN WordRunEnd(s, i + 1) ELSE i

\* from a word run ending at e, the extent of run(/run)*: where it ends and
\* how many runs it holds
RECURSIVE PathExtent(_, _, _)
PathExtent(s, e, runs) ==
  IF e + 2 <= Len(s) /\ s[e + 1] = "/" /\ IsWordSym(s[e + 2])
  THEN PathExtent(s, WordRunEnd(s, e + 2), runs + 1)
  ELSE [end |-> e, runs |-> runs]

\* .replace(/\b(?:[A-Za-z0-9._-]+\/){2,}[A-Za-z0-9._-]+...\b/g, "[경로생략]")
RECURSIVE ReplaceSlashPaths(_, _)
ReplaceSlashPaths(s, i) ==
  IF i > Len(s) THEN <<>>
  ELSE IF IsWordSym(s[i]) /\ (i = 1 \/ ~IsWordSym(s[i - 1]))
       THEN LET x == PathExtent(s, WordRunEnd(s, i), 1)
            IN IF x.runs >= MinSlashGroups + 1
               THEN <<PLACEHOLDER>> \o ReplaceSlashPaths(s, x.end + 1)
               ELSE <<s[i]>> \o ReplaceSlashPaths(s, i + 1)
       ELSE <<s[i]>> \o ReplaceSlashPaths(s, i + 1)

\* symbols a run of [^\s]+ (or [^\s)\]}>"'`]+) cannot run through: blanks, and
\* the fixed fragments, which hold blanks
StopsRun(c) == IsSpace(c) \/ c \in PhraseSyms \/ c \in {"(", ")", "[[", "]]", ",", PLACEHOLDER, "[link]"}

RECURSIVE RunEnd(_, _)
RunEnd(s, i) == IF i < Len(s) /\ ~StopsRun(s[i + 1]) THEN RunEnd(s, i + 1) ELSE i

\* .replace(/\/Users\/[^\s]+/g, "[경로생략]"); "U" is the word Users
RECURSIVE ReplaceUsersPaths(_, _)
ReplaceUsersPaths(s, i) ==
  IF i > Len(s) THEN <<>>
  ELSE IF i + 3 <= Len(s) /\ s[i] = "/" /\ s[i + 1] = "U" /\ s[i + 2] = "/" /\ ~StopsRun(s[i + 3])
       THEN <<PLACEHOLDER>> \o ReplaceUsersPaths(s, RunEnd(s, i + 3) + 1)
       ELSE <<s[i]>> \o ReplaceUsersPaths(s, i + 1)

\* .replace(/^[^\p{L}\p{N}]+/u, "")
RECURSIVE StripLeadingNonAlnum(_)
StripLeadingNonAlnum(s) ==
  IF s = <<>> THEN <<>>
  ELSE IF IsWordSym(Head(s)) THEN s
  ELSE StripLeadingNonAlnum(Tail(s))

\* stripMetadataNoise(rawText); the model's previews hold no metadata keys,
\* timestamps, digits or underscores
stripMetadataNoise(rawText) ==
  Trim(CollapseWhitespace(StripLeadingNonAlnum(sanitizeString(rawText))))

\* a redaction that only tidies the whitespace (variant of redactPathLikeText
\* used to test the redaction rule)
redactNothing(rawText) == Trim(CollapseWhitespace(sanitizeString(rawText)))

\* redactPathLikeText(rawText); two placeholders never touch, so
\* .replace(/[\[\]]{2,}/g, " ") is the identity on the model's texts
redactPathLikeText(rawText) ==
  LET text == sanitizeString(rawText)
  IN Trim(CollapseWhitespace(ReplaceSlashPaths(ReplaceUsersPaths(text, 1), 1)))

\* .replace(/[ \t]{2,}/g, " ")
RECURSIVE CollapseBlanks(_)
CollapseBlanks(s) ==
  IF s = <<>> THEN <<>>
  ELSE IF Len(s) >= 2 /\ s[1] = SP /\ s[2] = SP THEN CollapseBlanks(Tail(s))
  ELSE <<Head(s)>> \o CollapseBlanks(Tail(s))

\* .replace(/\n{3,}/g, "\n\n")
RECURSIVE CollapseNewlines(_)
CollapseNewlines(s) ==
  IF s = <<>> THEN <<>>
  ELSE IF Len(s) >= 3 /\ s[1] = NL /\ s[2] = NL /\ s[3] = NL THEN CollapseNewlines(Tail(s))
  ELSE <<Head(s)>> \o CollapseNewlines(Tail(s))

\* sanitizePathStringsForPrompt(rawText)
sanitizePathStringsForPrompt(rawText) ==
  LET text == sanitizeString(rawText)
  IN Trim(CollapseNewlines(CollapseBlanks(
       ReplaceSlashPaths(ReplaceUsersPaths(text, 1), 1))))

\* symbols that hold a "]"
ClosingBracketSyms ==
  {"]", ",inl]", ":none]", "]]", PLACEHOLDER, "[link]", "-[folder]", "-[count]", "G(", "R("}

\* /\[Context Pack [^\]]*,\s*inline\]/i.test(text)
HasInlineMarker(text) ==
  \E i \in 1..Len(text) : \E j \in (i + 1)..Len(text) :
    /\ text[i] = "[CP"
    /\ text[j] = ",inl]"
    /\ \A k \in (i + 1)..(j - 1) : text[k] \notin ClosingBracketSyms

\* hasInlineContextPayload(rawText)
hasInlineContextPayload(rawText) ==
  LET text == sanitizeString(rawText)
  IN /\ text # <<>>
     /\ \/ HasInlineMarker(text)
        \/ Includes(text, INLINE_CONTEXT_ONLY_GUIDANCE)
        \/ Includes(text, INLINE_CONTEXT_ONLY_GUARD)

\* enforceInlineContextGuard(rawText)
enforceInlineContextGuard(rawText) ==
  LET text == sanitizeString(rawText)
  IN IF text = <<>> THEN <<>>
     ELSE IF ~hasInlineContextPayload(text) THEN text
     ELSE IF Includes(text, INLINE_CONTEXT_ONLY_GUARD) THEN text
     ELSE INLINE_CONTEXT_ONLY_GUARD \o <<NL>> \o text

(***************************************************************************)
(* Rendering of a ranked selection                                         *)
(***************************************************************************)
PreviewCap == 300

\* the parts of a path between its slashes, empty parts dropped
RECURSIVE SplitPath(_, _, _)
SplitPath(s, cur, out) ==
  IF s = <<>> THEN (IF cur = <<>> THEN out ELSE Append(out, cur))
  ELSE IF Head(s) = "/"
       THEN SplitPath(Tail(s), <<>>, IF cur = <<>> THEN out ELSE Append(out, cur))
       ELSE SplitPath(Tail(s), Append(cur, Head(s)), out)

\* folderAliasFromPath(rawPath)
folderAliasFromPath(rawPath) ==
  LET safe == sanitizeString(rawPath)
      parts == SplitPath(safe, <<>>, <<>>)
  IN IF safe = <<>> THEN <<>>
     ELSE IF parts = <<>> \/ Trim(parts[Len(parts)]) = <<>> THEN safe
     ELSE Trim(parts[Len(parts)])

RECURSIVE UniqueSeq(_, _)
UniqueSeq(s, out) ==
  IF s = <<>> THEN out
  ELSE UniqueSeq(Tail(s), IF InSeq(out, Head(s)) THEN out ELSE Append(out, Head(s)))

\* buildFolderOnlyContextText(pack, rankedCount):
\* "- [폴더] <aliases>\n- [문서수] <rankedCount>/<totalFiles>"
buildFolderOnlyContextText(pack, rankedCount) ==
  LET folders == sanitizeStringArray(pack.sourceFolders)
      aliases == Flatten(AsSeq([i \in 1..Len(folders) |->
                           IF folderAliasFromPath(folders[i]) = <<>> THEN <<>>
                           ELSE <<folderAliasFromPath(folders[i])>>]))
      uniqueFolders == UniqueSeq(aliases, <<>>)
      folderLabel == IF Len(uniqueFolders) > 0
                     THEN JoinWith(SubSeq(uniqueFolders, 1, Min(3, Len(uniqueFolders))), <<",">>)
                     ELSE <<"selnotes">>
      total == Max(1, IF pack.totalFiles # 0 THEN pack.totalFiles ELSE rankedCount)
  IN <<"-[folder]">> \o folderLabel \o <<NL, "-[count]">>
     \o NumSyms(rankedCount) \o <<"/">> \o NumSyms(total)

\* one bullet of the inline-preview list: "- [문서 k] <preview>"
PreviewBullet(item, k) ==
  LET rawPreview == sanitizeString(item.preview)
      preview == redactPathLikeText(stripMetadataNoise(rawPreview))
  IN <<"-[doc">> \o NumSyms(k) \o <<"]">>
     \o (IF preview # <<>> THEN SubSeq(preview, 1, Min(PreviewCap, Len(preview)))
         ELSE <<"(nopreview)">>)

\* a renderer that lists the previews whatever the switches say (variant of
\* buildInlineSnippetTextFromPackItems used to test summary mode)
inlinePreviewsAlways(items, pack, includePreviewsOption, st) ==
  JoinWith(AsSeq([k \in 1..Len(items) |-> PreviewBullet(items[k], k)]), <<NL>>)

\* buildInlineSnippetTextFromPackItems(items, pack, options)
buildInlineSnippetTextFromPackItems(items, pack, includePreviewsOption, st) ==
  LET includePreviews == includePreviewsOption \/ st.contextPackIncludePreviews
  IN IF ~includePreviews THEN buildFolderOnlyContextText(pack, Len(items))
     ELSE JoinWith(AsSeq([k \in 1..Len(items) |-> PreviewBullet(items[k], k)]), <<NL>>)

\* buildMentionsTextFromPackItems(items): "@<mentionPath> [[<mentionPath>]]"
buildMentionsTextFromPackItems(items) ==
  LET one(item) == LET normalized == sanitizeString(item.mentionPath)
                   IN IF normalized = <<>> THEN <<>>
                      ELSE <<(<<"@">> \o normalized \o <<SP, "[[">> \o normalized \o <<"]]">>)>>
  IN JoinWith(Flatten(AsSeq([k \in 1..Len(items) |-> one(items[k])])), <<SP>>)

(***************************************************************************)
(* expandContextPackReferences(rawText)                                    *)
(***************************************************************************)
\* /(요약|정리|핵심|summary|summarize|analysis|...)/i.test(query): "kw" is such a word
HasDetailKeyword(query) == InSeq(query, "kw")

\* the replacement text of one found pack, given the text so far
PackReplacement(st, pack, id, query, nextText, expandedIds, sidecar) ==
  LET topK == NumVal(Max(2, pack.topK.half))
      inlineMode == st.contextPackInjectInline
      needsDetailFromQuery == st.contextPackAutoPreviewFromQuery /\ HasDetailKeyword(query)
      includePreviews == st.contextPackIncludePreviews \/ needsDetailFromQuery
      includeGuidance == /\ inlineMode
                         /\ expandedIds = <<>>
                         /\ ~Includes(nextText, INLINE_CONTEXT_ONLY_GUIDANCE)
      guidanceLine == IF includeGuidance THEN INLINE_CONTEXT_ONLY_GUIDANCE \o <<NL>> ELSE <<>>
      Replacement(ranked, payloadText) ==
        LET head == <<"[CP", id, ":">> \o NumSyms(Len(ranked)) \o <<"/">>
                      \o NumSyms(pack.totalFiles)
        IN IF Len(payloadText) > 0
           THEN IF inlineMode
                THEN head \o <<",inl]", NL>> \o guidanceLine \o payloadText \o <<NL>>
                ELSE head \o <<"]", SP>> \o payloadText
           ELSE <<"[CP", id, ":none]">>
  IN TheOne({TheOne({Replacement(ranked, payloadText) :
                      payloadText \in
                        {IF inlineMode
                         THEN buildInlineSnippetTextFromPackItems(ranked, pack,
                                                                  includePreviews, st)
                         ELSE buildMentionsTextFromPackItems(ranked)}}) :
              ranked \in
                {rankContextPackItems(pack.items,
                   [query |-> query, topK |-> topK,
                    folderWeights |-> buildFolderWeightMap(pack.sourceFolders)], sidecar)}})

\* variant: the pack used moves to the front of the history
TouchPackToFront(packs, id, t) ==
  LET i == CHOOSE i \in 1..Len(packs) :
             packs[i].id = id /\ \A j \in 1..(i - 1) : packs[j].id # id
  IN <<[packs[i] EXCEPT !.lastUsedAt = t]>>
       \o SubSeq(packs, 1, i - 1) \o SubSeq(packs, i + 1, Len(packs))

\* pack.lastUsedAt = new Date().toISOString() on the pack findContextPack returned
TouchPack(packs, id, t) ==
  LET i == CHOOSE i \in 1..Len(packs) :
             packs[i].id = id /\ \A j \in 1..(i - 1) : packs[j].id # id
  IN [packs EXCEPT ![i].lastUsedAt = t]

\* ids.forEach((id) => {...}) from the k-th id on; acc holds nextText,
\* expandedIds, missingIds and the packs
RECURSIVE ExpandEach(_, _, _, _, _, _, _)
ExpandEach(st, ids, k, query, acc, t, sidecar) ==
  IF k > Len(ids) THEN acc
  ELSE LET id == ids[k]
           Step(pack) ==
             IF pack = NoPack
             THEN [acc EXCEPT !.missingIds = Append(@, id)]
             ELSE [nextText |-> ReplaceToken(acc.nextText, id,
                                  PackReplacement(st, pack, id, query, acc.nextText,
                                                  acc.expandedIds, sidecar)),
                   expandedIds |-> Append(acc.expandedIds, id),
                   missingIds |-> acc.missingIds,
                   packs |-> TouchPack(acc.packs, id, t)]
       IN TheOne({ExpandEach(st, ids, k + 1, query, next, t, sidecar) :
                   next \in {TheOne({Step(pack) :
                                      pack \in {findContextPack(acc.packs, id)}})}})

\* expandContextPackReferences(rawText) at time t: the returned text,
\* expandedIds and missingIds, the pack history afterwards, and whether
\* saveSettings() was called
expandContextPackReferences(st, rawText, t, sidecar) ==
  LET Result(original, ids, acc) ==
        LET touchedPack == acc.expandedIds # <<>>
        IN IF original = <<>> \/ ids = <<>>
           THEN [text |-> original, expandedIds |-> <<>>, missingIds |-> <<>>,
                 packs |-> st.contextPacks, saved |-> FALSE]
           ELSE [text |-> acc.nextText, expandedIds |-> acc.expandedIds,
                 missingIds |-> acc.missingIds,
                 packs |-> IF touchedPack THEN normalizeContextPacks(acc.packs)
                           ELSE acc.packs,
                 saved |-> touchedPack]
      Expanded(original, ids) ==
        TheOne({Result(original, ids, acc) :
                 acc \in {ExpandEach(st, ids, 1,
                                     Trim(CollapseWhitespace(BlankReferences(original))),
                                     [nextText |-> original, expandedIds |-> <<>>,
                                      missingIds |-> <<>>, packs |-> st.contextPacks],
                                     t, sidecar)}})
  IN TheOne({TheOne({Expanded(original, ids) :
                      ids \in {getContextPackIdsFromText(original)}}) :
              original \in {sanitizeString(rawText)}})

(***************************************************************************)
(* The chat view's input: snapshot, expand, sanitize, reset                *)
(***************************************************************************)
NoSnapshot == [has |-> FALSE, before |-> <<>>, after |-> <<>>, ts |-> 0]

\* getViewInputText(view)
getViewInputText(raw) == sanitizeString(raw)

\* setViewInputText(view, nextText): the text the view holds afterwards
setViewInputText(nextText) == sanitizeString(nextText)

\* a view that keeps no snapshot of its input (variant of
\* rememberContextPackInputSnapshot used to test the reset law)
rememberNothing(snap, beforeText, afterText, t) == snap

\* rememberContextPackInputSnapshot(view, beforeText, afterText)
rememberContextPackInputSnapshot(snap, beforeText, afterText, t) ==
  LET before == sanitizeString(beforeText)
      after == sanitizeString(afterText)
  IN IF before = <<>> \/ after = <<>> \/ before = after THEN snap
     ELSE [has |-> TRUE, before |-> before, after |-> after, ts |-> t]

\* expandContextPackInViewInput(view)
expandContextPackInViewInput(st, raw, snap, t, sidecar) ==
  LET Apply(currentText, expanded, nextText) ==
        IF expanded.expandedIds = <<>> \/ nextText = currentText
        THEN [applied |-> FALSE, text |-> raw, snapshot |-> snap, packs |-> expanded.packs,
              expandedIds |-> expanded.expandedIds, missingIds |-> expanded.missingIds]
        ELSE [applied |-> TRUE, text |-> setViewInputText(nextText),
              snapshot |-> rememberContextPackInputSnapshot(snap, currentText, nextText, t),
              packs |-> expanded.packs,
              expandedIds |-> expanded.expandedIds, missingIds |-> expanded.missingIds]
      Guarded(currentText, expanded) ==
        TheOne({Apply(currentText, expanded, nextText) :
                 nextText \in
                   {IF st.contextPackInjectInline /\ hasInlineContextPayload(expanded.text)
                    THEN enforceInlineContextGuard(
                           sanitizePathStringsForPrompt(expanded.text))
                    ELSE expanded.text}})
      Expand(currentText) ==
        LET hasReference == currentText # <<>> /\ HasReference(currentText)
        IN IF ~hasReference
           THEN [applied |-> FALSE, text |-> raw, snapshot |-> snap,
                 packs |-> st.contextPacks, expandedIds |-> <<>>, missingIds |-> <<>>]
           ELSE TheOne({Guarded(currentText, expanded) :
                         expanded \in
                           {expandContextPackReferences(st, currentText, t, sidecar)}})
  IN TheOne({Expand(currentText) : currentText \in {getViewInputText(raw)}})

\* sanitizeInlineContextInViewInput(view)
sanitizeInlineContextInViewInput(st, raw, snap, t) ==
  LET Write(currentText, nextText) ==
        IF nextText # currentText
        THEN [changed |-> TRUE, inlineContextOnly |-> TRUE,
              text |-> setViewInputText(nextText),
              snapshot |-> rememberContextPackInputSnapshot(snap, currentText, nextText, t)]
        ELSE [changed |-> FALSE, inlineContextOnly |-> TRUE, text |-> raw, snapshot |-> snap]
      Sanitize(currentText) ==
        IF currentText = <<>> \/ ~st.contextPackInjectInline
             \/ ~hasInlineContextPayload(currentText)
        THEN [changed |-> FALSE, inlineContextOnly |-> FALSE, text |-> raw, snapshot |-> snap]
        ELSE TheOne({Write(currentText, nextText) :
                      nextText \in {enforceInlineContextGuard(
                                      sanitizePathStringsForPrompt(currentText))}})
  IN TheOne({Sanitize(currentText) : currentText \in {getViewInputText(raw)}})

\* the index of the k-th sep of s; 0 for k = 0, Len(s) + 1 behind the last
SepIndex(s, sep, k) ==
  IF k = 0 THEN 0
  ELSE IF k > Cardinality({i \in 1..Len(s) : s[i] = sep}) THEN Len(s) + 1
  ELSE CHOOSE i \in 1..Len(s) :
         s[i] = sep /\ Cardinality({j \in 1..i : s[j] = sep}) = k

\* s.split(sep): the pieces of s between its separators, empty ones too
SplitOn(s, sep) ==
  AsSeq([k \in 1..(Cardinality({i \in 1..Len(s) : s[i] = sep}) + 1) |->
           SubSeq(s, SepIndex(s, sep, k - 1) + 1, SepIndex(s, sep, k) - 1)])

\* text.split(/\r?\n/)
SplitLines(s) == SplitOn(s, NL)

\* the blank-separated words of a line
SplitWords(s) == SelectSeq(SplitOn(s, SP), LAMBDA w : w # <<>>)

\* /^\[Context Pack [^\]]+\]/i.test(trimmed)
IsPackMarkerLine(trimmed) ==
  /\ Len(trimmed) >= 2
  /\ trimmed[1] = "[CP"
  /\ \E j \in 2..Len(trimmed) :
       /\ trimmed[j] \in ClosingBracketSyms
       /\ \A k \in 2..(j - 1) : trimmed[k] \notin ClosingBracketSyms
       /\ (j > 2 \/ trimmed[j] \notin {"]", "]]"})

\* /^- \[(폴더|문서수|문서\s*\d+)\]/i.test(trimmed)
IsBulletLine(trimmed) ==
  /\ trimmed # <<>>
  /\ \/ trimmed[1] \in {"-[folder]", "-[count]"}
     \/ /\ trimmed[1] = "-[doc"
        /\ \E j \in 3..Len(trimmed) :
             /\ trimmed[j] = "]"
             /\ \A k \in 2..(j - 1) : trimmed[k] \in OneCharSyms \ {"/"}

\* a word "@..." of /@[^\s]+/ and a word "[[...]]" of /\[\[[^\]]+\]\]/
IsMentionWord(w) ==
  /\ \A i \in 1..Len(w) : w[i] \notin PhraseSyms \ RefSyms
  /\ \/ (Len(w) >= 2 /\ w[1] = "@")
     \/ w[1] \in RefSyms
IsLinkWord(w) ==
  /\ Len(w) >= 3 /\ w[1] = "[[" /\ w[Len(w)] = "]]"
  /\ \A i \in 2..(Len(w) - 1) : w[i] \notin ClosingBracketSyms

\* /^(@[^\s]+(?:\s+\[\[[^\]]+\]\])?\s*)+$/i.test(trimmed)
IsMentionsOnlyLine(trimmed) ==
  LET ws == SplitWords(trimmed)
  IN /\ ws # <<>>
     /\ \A i \in 1..Len(ws) :
          \/ IsMentionWord(ws[i])
          \/ (IsLinkWord(ws[i]) /\ i > 1 /\ IsMentionWord(ws[i - 1]))

KeepLine(line) ==
  LET trimmed == sanitizeString(line)
  IN IF trimmed = <<>> THEN <<(<<>>)>>
     ELSE IF \/ trimmed = INLINE_CONTEXT_ONLY_GUIDANCE
             \/ trimmed = INLINE_CONTEXT_ONLY_GUARD
             \/ IsPackMarkerLine(trimmed)
             \/ IsBulletLine(trimmed)
             \/ IsMentionsOnlyLine(trimmed)
          THEN <<>>
          ELSE <<line>>

\* stripContextPackArtifactsFromInput(rawText)
stripContextPackArtifactsFromInput(rawText) ==
  LET text == sanitizeString(rawText)
      lines == SplitLines(text)
      kept == Flatten(AsSeq([i \in 1..Len(lines) |-> KeepLine(lines[i])]))
  IN IF text = <<>> THEN <<>>
     ELSE Trim(CollapseNewlines(CollapseBlanks(BlankReferences(JoinWith(kept, <<NL>>)))))

\* variant: a reset that restores the before text of whatever snapshot the
\* view holds, whether or not the text is still the snapshot's after text
resetFromAnySnapshot(raw, snap) ==
  LET Write(currentText, nextText) ==
        IF currentText = <<>> \/ nextText = currentText
        THEN [applied |-> FALSE, text |-> raw, snapshot |-> snap]
        ELSE [applied |-> TRUE, text |-> setViewInputText(nextText), snapshot |-> NoSnapshot]
      Reset(currentText) ==
        TheOne({Write(currentText, nextText) :
                 nextText \in {IF snap.has THEN sanitizeString(snap.before)
                               ELSE stripContextPackArtifactsFromInput(currentText)}})
  IN TheOne({Reset(currentText) : currentText \in {getViewInputText(raw)}})

\* resetContextPackInViewInput(view)
resetContextPackInViewInput(raw, snap) ==
  LET Write(currentText, nextText) ==
        IF currentText = <<>> \/ nextText = currentText
        THEN [applied |-> FALSE, text |-> raw, snapshot |-> snap]
        ELSE [applied |-> TRUE, text |-> setViewInputText(nextText), snapshot |-> NoSnapshot]
      Restore(currentText, fromSnapshot) ==
        TheOne({Write(currentText, nextText) :
                 nextText \in {IF fromSnapshot = currentText
                               THEN stripContextPackArtifactsFromInput(currentText)
                               ELSE fromSnapshot}})
      Reset(currentText) ==
        TheOne({Restore(currentText, fromSnapshot) :
                 fromSnapshot \in {IF snap.has /\ sanitizeString(snap.after) = currentText
                                   THEN sanitizeString(snap.before) ELSE currentText}})
  IN TheOne({Reset(currentText) : currentText \in {getViewInputText(raw)}})

(***************************************************************************)
(* Send payloads                                                           *)
(*                                                                         *)
(* The arguments of a send call are a heap of cells: plain objects, arrays *)
(* and other objects (class instances).  A value is a string: "absent" for *)
(* a key the object does not have, "null", a scalar ("true", "false",      *)
(* "none", "auto", ...), a literal array of tool descriptors ("[]",        *)
(* "[a,b]", "[c]"), or a reference "@n" to cell n, so that two keys may    *)
(* hold the same object and an object may hold itself.                     *)
(***************************************************************************)
RefNames == <<"@1", "@2", "@3", "@4", "@5", "@6", "@7", "@8", "@9", "@10", "@11", "@12">>
IsRef(v) == \E n \in 1..Len(RefNames) : RefNames[n] = v
AddrOf(v) == CHOOSE n \in 1..Len(RefNames) : RefNames[n] = v

ToolArrayVals == {"[]", "[a,b]", "[c]"}
StringVals == {"none", "auto", "required", "m0", "m1", "responses", "chat_completions", "hello"}

\* the keys the send guard sets or reads, and "nested", "meta": keys it
\* does not know
NestedKeys == <<"payload", "request", "options", "messages">>
ThinkingNestedKeys == NestedKeys \o <<"reasoning">>
ObjKeys ==
  {"localGateContextOnly", "tool_choice", "toolChoice", "disableTools",
   "allowTools", "enableTools", "toolsEnabled",
   "tools", "availableTools", "enabledTools",
   "payload", "request", "options", "messages", "reasoning",
   "nested", "meta",
   "wire_api", "wireApi", "apiMode", "api_mode", "model", "selectedModel",
   "think", "thinking", "enabled", "text", "prompt"}

\* frozen: the object went through Object.freeze; threw: an assignment to
\* the object threw a TypeError (the file is strict code)
EmptyObj ==
  [kind |-> "obj", f |-> [k \in ObjKeys |-> "absent"], e |-> <<>>,
   frozen |-> FALSE, threw |-> FALSE]
Obj(fields) ==
  [kind |-> "obj",
   f |-> [k \in ObjKeys |-> IF k \in DOMAIN fields THEN fields[k] ELSE "absent"],
   e |-> <<>>, frozen |-> FALSE, threw |-> FALSE]
Arr(elems) ==
  [kind |-> "arr", f |-> [k \in ObjKeys |-> "absent"], e |-> elems,
   frozen |-> FALSE, threw |-> FALSE]
Inst ==
  [kind |-> "inst", f |-> [k \in ObjKeys |-> "absent"], e |-> <<>>,
   frozen |-> FALSE, threw |-> FALSE]
\* Object.freeze(cell)
Freeze(cell) == [cell EXCEPT !.frozen = TRUE]

\* isPlainObject(value), Array.isArray(value), typeof value === "object"
isPlainObject(h, v) == IsRef(v) /\ AddrOf(v) \in DOMAIN h /\ h[AddrOf(v)].kind = "obj"
IsArray(h, v) ==
  v \in ToolArrayVals \/ (IsRef(v) /\ AddrOf(v) \in DOMAIN h /\ h[AddrOf(v)].kind = "arr")
IsObjectCell(h, v) == IsRef(v) /\ AddrOf(v) \in DOMAIN h
\* key in value
HasKey(h, a, key) == h[a].f[key] # "absent"
\* an assignment has thrown: what follows it in the call is not executed
Threw(h) == \E a \in DOMAIN h : h[a].threw
\* the payload after the error was caught
Caught(h) == AsSeq([a \in DOMAIN h |-> [h[a] EXCEPT !.threw = FALSE]])
\* value[key] = v in strict code
SetField(h, a, key, v) ==
  IF Threw(h) THEN h
  ELSE IF h[a].frozen THEN [h EXCEPT ![a].threw = TRUE]
  ELSE [h EXCEPT ![a].f[key] = v]
SetIfPresent(h, a, key, v) == IF HasKey(h, a, key) THEN SetField(h, a, key, v) ELSE h
\* a guard that leaves tool arrays alone (variant of ClearIfArray used to
\* test tool suppression)
KeepArray(h, a, key) == h

ClearIfArray(h, a, key) ==
  IF IsArray(h, h[a].f[key]) THEN SetField(h, a, key, "[]") ELSE h

WalkDepthCap == 5     \* depth > 5 of the suppression walks
WalkArrayCap == 24    \* value.slice(0, 24)
CollectDepthCap == 4  \* depth > 4 of collectMutableSendObjects
CollectArrayCap == 20 \* value.slice(0, 20)

\* assignments that flip disableTools instead of setting it (variant of
\* SuppressToolFields used to test idempotence)
SuppressByToggle(h, a) ==
  SetField(h, a, "disableTools", IF h[a].f["disableTools"] = "true" THEN "false" ELSE "true")

\* the assignments of applyToolSuppressionInPayload on one plain object
SuppressToolFields(h, a) ==
  LET h1 == SetField(SetField(SetField(SetField(h, a, "localGateContextOnly", "true"),
                      a, "tool_choice", "none"), a, "toolChoice", "none"),
                      a, "disableTools", "true")
      h2 == SetIfPresent(SetIfPresent(SetIfPresent(h1, a, "allowTools", "false"),
                      a, "enableTools", "false"), a, "toolsEnabled", "false")
      h3 == ClearIfArray(ClearIfArray(ClearIfArray(h2, a, "tools"),
                      a, "availableTools"), a, "enabledTools")
      opt == h3[a].f["options"]
  IN IF isPlainObject(h3, opt)
     THEN ClearIfArray(SetIfPresent(SetIfPresent(h3, AddrOf(opt), "allowTools", "false"),
                         AddrOf(opt), "enableTools", "false"), AddrOf(opt), "tools")
     ELSE h3

\* applyToolSuppressionInPayload(value, depth, seen); hs holds the heap, the
\* seen set, and log: the objects in the order of their seen.add(value)
NewWalk(h) == [h |-> h, seen |-> {}, log |-> <<>>]

RECURSIVE ToolWalk(_, _, _), ToolWalkKeys(_, _, _, _), ToolWalkElems(_, _, _, _)
\* a walk that does not consult the seen set (variant of ToolWalk used to
\* test that an object is patched once)
ToolWalkRevisiting(hs, v, depth) ==
  IF Threw(hs.h) \/ depth > WalkDepthCap \/ ~IsObjectCell(hs.h, v) THEN hs
  ELSE LET a == AddrOf(v)
           hs1 == [hs EXCEPT !.seen = @ \cup {a}, !.log = Append(@, a)]
       IN CASE hs.h[a].kind = "arr" -> ToolWalkElems(hs1, a, 1, depth + 1)
            [] hs.h[a].kind = "obj" ->
                 TheOne({ToolWalkKeys(x, a, 1, depth + 1) :
                          x \in {[hs1 EXCEPT !.h = SuppressToolFields(@, a)]}})
            [] OTHER -> hs1

ToolWalk(hs, v, depth) ==
  IF Threw(hs.h) \/ depth > WalkDepthCap \/ ~IsObjectCell(hs.h, v) \/ AddrOf(v) \in hs.seen
  THEN hs
  ELSE LET a == AddrOf(v)
           hs1 == [hs EXCEPT !.seen = @ \cup {a}, !.log = Append(@, a)]
       IN CASE hs.h[a].kind = "arr" -> ToolWalkElems(hs1, a, 1, depth + 1)
            [] hs.h[a].kind = "obj" ->
                 TheOne({ToolWalkKeys(x, a, 1, depth + 1) :
                          x \in {[hs1 EXCEPT !.h = SuppressToolFields(@, a)]}})
            [] OTHER -> hs1
ToolWalkKeys(hs, a, k, depth) ==
  IF k > Len(NestedKeys) THEN hs
  ELSE TheOne({ToolWalkKeys(x, a, k + 1, depth) :
                x \in {IF HasKey(hs.h, a, NestedKeys[k])
                       THEN ToolWalk(hs, hs.h[a].f[NestedKeys[k]], depth) ELSE hs}})
ToolWalkElems(hs, a, k, depth) ==
  IF k > Min(WalkArrayCap, Len(hs.h[a].e)) THEN hs
  ELSE TheOne({ToolWalkElems(x, a, k + 1, depth) :
                x \in {ToolWalk(hs, hs.h[a].e[k], depth)}})

applyToolSuppressionInPayload(h, v) == ToolWalk(NewWalk(h), v, 0).h

\* the assignments of applyThinkingSuppressionInPayload on one plain object
SuppressThinkingFields(h, a) ==
  LET h1 == SetIfPresent(SetIfPresent(h, a, "thinking", "false"), a, "think", "false")
      r == h1[a].f["reasoning"]
      h2 == IF r \in {"true", "false"} THEN SetField(h1, a, "reasoning", "false")
            ELSE IF isPlainObject(h1, r) THEN SetIfPresent(h1, AddrOf(r), "enabled", "false")
            ELSE h1
      opt == h2[a].f["options"]
  IN IF isPlainObject(h2, opt) THEN SetIfPresent(h2, AddrOf(opt), "think", "false") ELSE h2

\* applyThinkingSuppressionInPayload(value, depth, seen)
RECURSIVE ThinkWalk(_, _, _), ThinkWalkKeys(_, _, _, _), ThinkWalkElems(_, _, _, _)
ThinkWalk(hs, v, depth) ==
  IF Threw(hs.h) \/ depth > WalkDepthCap \/ ~IsObjectCell(hs.h, v) \/ AddrOf(v) \in hs.seen
  THEN hs
  ELSE LET a == AddrOf(v)
           hs1 == [hs EXCEPT !.seen = @ \cup {a}, !.log = Append(@, a)]
       IN CASE hs.h[a].kind = "arr" -> ThinkWalkElems(hs1, a, 1, depth + 1)
            [] hs.h[a].kind = "obj" ->
                 TheOne({ThinkWalkKeys(x, a, 1, depth + 1) :
                          x \in {[hs1 EXCEPT !.h = SuppressThinkingFields(@, a)]}})
            [] OTHER -> hs1
ThinkWalkKeys(hs, a, k, depth) ==
  IF k > Len(ThinkingNestedKeys) THEN hs
  ELSE TheOne({ThinkWalkKeys(x, a, k + 1, depth) :
                x \in {IF HasKey(hs.h, a, ThinkingNestedKeys[k])
                       THEN ThinkWalk(hs, hs.h[a].f[ThinkingNestedKeys[k]], depth) ELSE hs}})
ThinkWalkElems(hs, a, k, depth) ==
  IF k > Min(WalkArrayCap, Len(hs.h[a].e)) THEN hs
  ELSE TheOne({ThinkWalkElems(x, a, k + 1, depth) :
                x \in {ThinkWalk(hs, hs.h[a].e[k], depth)}})

applyThinkingSuppressionInPayload(h, v) == ThinkWalk(NewWalk(h), v, 0).h

\* visit(value, depth) of collectMutableSendObjects; out is the list of
\* plain objects pushed so far (seen is the set of its entries)
RECURSIVE Visit(_, _, _, _), VisitKeys(_, _, _, _, _), VisitElems(_, _, _, _, _)
Visit(h, out, v, depth) ==
  IF depth > CollectDepthCap \/ ~IsObjectCell(h, v) THEN out
  ELSE LET a == AddrOf(v)
       IN CASE h[a].kind = "arr" -> VisitElems(h, out, a, 1, depth + 1)
            [] h[a].kind = "obj" ->
                 TheOne({VisitKeys(h, x, a, 1, depth + 1) :
                          x \in {IF InSeq(out, a) THEN out ELSE Append(out, a)}})
            [] OTHER -> out
VisitKeys(h, out, a, k, depth) ==
  IF k > Len(NestedKeys) THEN out
  ELSE TheOne({VisitKeys(h, x, a, k + 1, depth) :
                x \in {IF HasKey(h, a, NestedKeys[k])
                       THEN Visit(h, out, h[a].f[NestedKeys[k]], depth) ELSE out}})
VisitElems(h, out, a, k, depth) ==
  IF k > Min(CollectArrayCap, Len(h[a].e)) THEN out
  ELSE TheOne({VisitElems(h, x, a, k + 1, depth) :
                x \in {Visit(h, out, h[a].e[k], depth)}})

\* collectMutableSendObjects(sendArgs): sendArgs is the argument list
RECURSIVE CollectArgs(_, _, _, _)
CollectArgs(h, args, k, out) ==
  IF k > Len(args) THEN out
  ELSE TheOne({CollectArgs(h, args, k + 1, x) :
                x \in {Visit(h, out, args[k], 0)}})
collectMutableSendObjects(h, sendArgs) == CollectArgs(h, sendArgs, 1, <<>>)

RequestShapeKeys ==
  {"messages", "prompt", "text", "model", "wire_api", "wireApi", "tools", "tool_choice",
   "toolChoice", "request", "payload", "options"}
hasRequestShape(h, a) == \E key \in RequestShapeKeys : HasKey(h, a, key)

\* the body of the forEach of applySendRuntimeGuards on one entry
GuardEntry(h, a, runtimeContext, inlineContextOnly, st) ==
  LET wireApi == runtimeContext.wireApi
      model == runtimeContext.model
      forceToollessSend == inlineContextOnly /\ st.contextPackForceToollessSend
      h1 == IF wireApi # ""
            THEN LET w == SetField(SetField(h, a, "wire_api", wireApi), a, "wireApi", wireApi)
                     x == IF w[a].f["apiMode"] \in StringVals
                          THEN SetField(w, a, "apiMode", wireApi) ELSE w
                 IN IF x[a].f["api_mode"] \in StringVals
                    THEN SetField(x, a, "api_mode", wireApi) ELSE x
            ELSE h
      h2 == IF model # ""
            THEN LET m == IF h1[a].f["model"] \in StringVals
                          THEN SetField(h1, a, "model", model) ELSE h1
                 IN IF m[a].f["selectedModel"] \in StringVals
                    THEN SetField(m, a, "selectedModel", model) ELSE m
            ELSE h1
      h3 == IF inlineContextOnly THEN SetField(h2, a, "localGateContextOnly", "true") ELSE h2
      h4 == IF forceToollessSend THEN applyToolSuppressionInPayload(h3, RefNames[a]) ELSE h3
  IN IF ~hasRequestShape(h, a) THEN h
     ELSE IF st.suppressThinkingSignals THEN applyThinkingSuppressionInPayload(h4, RefNames[a])
     ELSE h4

RECURSIVE GuardEntries(_, _, _, _, _, _)
GuardEntries(h, entries, k, runtimeContext, inlineContextOnly, st) ==
  IF k > Len(entries) THEN h
  ELSE TheOne({GuardEntries(x, entries, k + 1, runtimeContext, inlineContextOnly, st) :
                x \in {GuardEntry(h, entries[k], runtimeContext, inlineContextOnly, st)}})

\* applySendRuntimeGuards(sendArgs, runtimeContext, inlineContextOnly)
applySendRuntimeGuards(h, sendArgs, runtimeContext, inlineContextOnly, st) ==
  TheOne({GuardEntries(h, x, 1, runtimeContext, inlineContextOnly, st) :
           x \in {collectMutableSendObjects(h, sendArgs)}})

(***************************************************************************)
(* The wrapped send method: prepareSendPreflight, then the original        *)
(***************************************************************************)
\* prepareSendPreflight(view, sendArgs, methodName): the view afterwards, the
\* guarded arguments, and the "before-send" diagnostics if any
prepareSendPreflight(st, raw, snap, t, sidecar, h, sendArgs, runtimeContext) ==
  LET Preflight(e1, e2, sanitized) ==
        LET st2 == [st EXCEPT !.contextPacks = e2.packs]
            shouldTrace == sanitized.inlineContextOnly \/ runtimeContext.isVision
        IN [text |-> sanitized.text, snapshot |-> sanitized.snapshot, packs |-> e2.packs,
            expanded |-> e2.applied, missingIds |-> e1.missingIds,
            expandedText |-> e2.text, sanitized |-> sanitized.changed,
            inlineContextOnly |-> sanitized.inlineContextOnly,
            heap |-> applySendRuntimeGuards(h, sendArgs, runtimeContext,
                                            sanitized.inlineContextOnly, st2),
            log |-> IF shouldTrace THEN <<[phase |-> "before-send", error |-> ""]>>
                    ELSE <<>>]
      Sanitized(e1, e2) ==
        TheOne({Preflight(e1, e2, sanitized) :
                 sanitized \in
                   {sanitizeInlineContextInViewInput([st EXCEPT !.contextPacks = e2.packs],
                                                     e2.text, e2.snapshot, t)}})
      \* ... || this.expandContextPackInActiveChatInput()
      OrActive(e1) ==
        TheOne({Sanitized(e1, e2) :
                 e2 \in {IF e1.applied THEN e1
                         ELSE expandContextPackInViewInput(
                                [st EXCEPT !.contextPacks = e1.packs],
                                e1.text, e1.snapshot, t, sidecar)}})
  IN TheOne({OrActive(e1) :
              e1 \in {expandContextPackInViewInput(st, raw, snap, t, sidecar)}})

\* what the host's send method may throw or reject with: an Error with a
\* message, an Error without one, a string, undefined
ErrorVals == {"Error:boom", "Error:", "str:fail", "undefined"}

\* sanitizeString(error && error.message, String(error || "unknown error"))
ErrMessage(e) ==
  CASE e = "Error:boom" -> "boom"
    [] e = "Error:" -> "Error"
    [] e = "str:fail" -> "fail"
    [] OTHER -> "unknown error"

\* what the original send method does when called
Behaviours ==
  {[kind |-> "returns", value |-> "undefined"], [kind |-> "resolves", value |-> "ok"]}
  \cup {[kind |-> k, value |-> e] : k \in {"throws", "rejects"}, e \in ErrorVals}

FailureLog(e) == <<[phase |-> "send-failed", error |-> ErrMessage(e)]>>

\* a wrapper that logs a failure and returns normally (variant of runOriginal
\* used to test that failures are re-raised)
runOriginalSwallowing(behaviour) ==
  IF behaviour.kind \in {"throws", "rejects"}
  THEN [kind |-> "returned", value |-> "undefined", log |-> FailureLog(behaviour.value)]
  ELSE [kind |-> "returned", value |-> behaviour.value, log |-> <<>>]

\* runOriginal(): what the caller of runOriginal gets, and what is logged
runOriginal(behaviour) ==
  CASE behaviour.kind = "returns" ->
         [kind |-> "returned", value |-> behaviour.value, log |-> <<>>]
    [] behaviour.kind = "resolves" ->
         [kind |-> "resolved", value |-> behaviour.value, log |-> <<>>]
    [] behaviour.kind = "rejects" ->
         [kind |-> "rejected", value |-> behaviour.value, log |-> FailureLog(behaviour.value)]
    [] OTHER ->
         [kind |-> "threw", value |-> behaviour.value, log |-> FailureLog(behaviour.value)]

\* the function `wrapped` of patchContextSendMethodOnTarget: what its caller
\* gets.  For an AsyncFunction original the call is chained on the model
\* sync promise, so the caller always gets a promise.
wrapped(isAsyncFunction, behaviour) ==
  LET r == runOriginal(behaviour)
  IN IF ~isAsyncFunction THEN r
     ELSE CASE r.kind = "returned" -> [r EXCEPT !.kind = "resolved"]
            [] r.kind = "threw" -> [r EXCEPT !.kind = "rejected"]
            [] OTHER -> r

NoSend ==
  [called |-> FALSE, isAsync |-> FALSE, syncOk |-> TRUE, args |-> <<>>,
   before |-> << >>, inlineContextOnly |-> FALSE, toolless |-> FALSE,
   runtimeContext |-> [provider |-> "", model |-> "", wireApi |-> "", isVision |-> FALSE],
   behaviour |-> [kind |-> "returns", value |-> "undefined"],
   outcome |-> [kind |-> "returned", value |-> "undefined", log |-> <<>>],
   log |-> <<>>]

NoOp ==
  [name |-> "none", pre |-> <<>>, post |-> <<>>, ret |-> FALSE,
   expandedIds |-> <<>>, missingIds |-> <<>>, inlineContextOnly |-> FALSE,
   snapPre |-> NoSnapshot, mid |-> <<>>, sanitized |-> FALSE]

Remember(opRecord) == <<op[2], opRecord>>

(***************************************************************************)
(* The packs, settings and texts of the model                              *)
(***************************************************************************)
MaxChunks == 2   \* an initial input text is at most this many chunks
MaxClock == 3    \* operations per behaviour

Item(path, preview, folderPath) ==
  [path |-> path, mentionPath |-> path, preview |-> preview, folderPath |-> folderPath]

\* f1/n1, f1/n2 and f2/n3: one preview with a three-segment path in it, one
\* empty preview
PackA ==
  [id |-> "p1", createdAt |-> 0,
   sourceFolders |-> << <<"f1">>, <<"top", "/", "f2">> >>,
   filePaths |-> << <<"f1", "/", "n1">>, <<"f1", "/", "n2">>, <<"f2", "/", "n3">> >>,
   items |-> << Item(<<"f1", "/", "n1">>, <<"a", SP, "b">>, <<"f1">>),
                Item(<<"f1", "/", "n2">>, <<"b", SP, "x", "/", "y", "/", "z">>, <<"f1">>),
                Item(<<"f2", "/", "n3">>, <<>>, <<"top", "/", "f2">>) >>,
   totalFiles |-> 3, topK |-> NumVal(4), lastUsedAt |-> 0]

\* one note whose preview holds the characters "$&"
PackB ==
  [id |-> "p2", createdAt |-> 0,
   sourceFolders |-> << <<"f1">> >>,
   filePaths |-> << <<"f1", "/", "n4">> >>,
   items |-> << Item(<<"f1", "/", "n4">>, <<"a", SP, "$&">>, <<"f1">>) >>,
   totalFiles |-> 1, topK |-> NumVal(16), lastUsedAt |-> 0]

\* pack histories: "p3" is in none of them
Histories == { <<PackA>>, <<PackB, PackA>> }

Settings(packs, inline, previews, auto, toolless, thinking) ==
  [contextPacks |-> packs,
   contextPackInjectInline |-> inline,
   contextPackIncludePreviews |-> previews,
   contextPackAutoPreviewFromQuery |-> auto,
   contextPackForceToollessSend |-> toolless,
   suppressThinkingSignals |-> thinking]

\* inline summary, inline with previews, legacy mentions
Modes ==
  { [inline |-> TRUE, previews |-> FALSE], [inline |-> TRUE, previews |-> TRUE],
    [inline |-> FALSE, previews |-> FALSE] }

\* texts of up to n chunks
RECURSIVE TextsOf(_, _)
TextsOf(chunks, n) ==
  IF n = 0 THEN { <<>> }
  ELSE LET shorter == TextsOf(chunks, n - 1)
       IN shorter \cup {t \o c : t \in shorter, c \in chunks}

\* what the user may have in the chat input
ViewChunks ==
  { <<"a">>, <<SP>>, <<"@p1">>, <<"@p3">>,
    INLINE_CONTEXT_ONLY_GUARD, INLINE_CONTEXT_ONLY_GUIDANCE }
\* what the user types between two operations
EditChunks == { <<SP, "a">> }

\* the runtime context of the view: resolveRuntimeContextForView(view)
RuntimeContexts ==
  { [provider |-> "", model |-> "", wireApi |-> "responses", isVision |-> FALSE],
    [provider |-> "ollama", model |-> "m1", wireApi |-> "responses", isVision |-> FALSE],
    [provider |-> "ollama", model |-> "m1", wireApi |-> "chat_completions", isVision |-> TRUE] }

(***************************************************************************)
(* Actions on the chat view                                                *)
(***************************************************************************)
\* the command "expand context pack in the active chat input"
ExpandInView ==
  /\ now < MaxClock
  /\ \E r \in {expandContextPackInViewInput(settings, viewText, snapshot, now + 1,
                                             rankerLoaded)} :
        /\ viewText' = r.text
        /\ snapshot' = r.snapshot
        /\ settings' = [settings EXCEPT !.contextPacks = r.packs]
        /\ op' = Remember([name |-> "expand", pre |-> viewText, post |-> r.text,
                           ret |-> r.applied, expandedIds |-> r.expandedIds,
                           missingIds |-> r.missingIds, inlineContextOnly |-> FALSE,
                           snapPre |-> snapshot, mid |-> r.text, sanitized |-> FALSE])
  /\ now' = now + 1
  /\ UNCHANGED <<rankerLoaded, pure, heap, send>>

\* the reset control of the chat view
ResetInView ==
  /\ now < MaxClock
  /\ \E r \in {resetContextPackInViewInput(viewText, snapshot)} :
        /\ viewText' = r.text
        /\ snapshot' = r.snapshot
        /\ op' = Remember([name |-> "reset", pre |-> viewText, post |-> r.text,
                           ret |-> r.applied, expandedIds |-> <<>>,
                           missingIds |-> <<>>, inlineContextOnly |-> FALSE,
                           snapPre |-> snapshot, mid |-> r.text, sanitized |-> FALSE])
  /\ now' = now + 1
  /\ UNCHANGED <<settings, rankerLoaded, pure, heap, send>>

\* the user types into the chat input
UserEdit ==
  /\ now < MaxClock
  /\ \E c \in EditChunks : viewText' = viewText \o c
  /\ op' = Remember([name |-> "edit", pre |-> viewText, post |-> viewText',
                     ret |-> TRUE, expandedIds |-> <<>>, missingIds |-> <<>>,
                     inlineContextOnly |-> FALSE, snapPre |-> snapshot,
                     mid |-> viewText', sanitized |-> FALSE])
  /\ now' = now + 1
  /\ UNCHANGED <<settings, rankerLoaded, snapshot, pure, heap, send>>

\* a call of a wrapped send method of the view with arguments sendArgs in
\* heap h; the original method behaves as `behaviour`
WrappedSend(h, sendArgs, runtimeContext, isAsyncFunction, behaviour, syncOk) ==
  /\ now < MaxClock
  /\ \E pre \in {prepareSendPreflight(settings, viewText, snapshot, now + 1, rankerLoaded,
                                       h, sendArgs, runtimeContext)},
        outcome \in {wrapped(isAsyncFunction, behaviour)} :
        /\ viewText' = pre.text
        /\ snapshot' = pre.snapshot
        /\ settings' = [settings EXCEPT !.contextPacks = pre.packs]
        /\ heap' = pre.heap
        \* a TypeError of the guards leaves wrapped before the diagnostics
        \* and before the original is called
        /\ send' = IF Threw(pre.heap)
                   THEN [called |-> TRUE, isAsync |-> isAsyncFunction, syncOk |-> syncOk,
                         args |-> sendArgs, before |-> h,
                         inlineContextOnly |-> pre.inlineContextOnly, toolless |-> FALSE,
                         runtimeContext |-> runtimeContext,
                         behaviour |-> [kind |-> "not called", value |-> "undefined"],
                         outcome |-> [kind |-> "threw", value |-> "TypeError", log |-> <<>>],
                         log |-> <<>>]
                   ELSE [called |-> TRUE, isAsync |-> isAsyncFunction, syncOk |-> syncOk,
                         args |-> sendArgs, before |-> h,
                         inlineContextOnly |-> pre.inlineContextOnly,
                         toolless |-> pre.inlineContextOnly
                                        /\ settings.contextPackForceToollessSend,
                         runtimeContext |-> runtimeContext,
                         behaviour |-> behaviour, outcome |-> outcome,
                         log |-> pre.log \o outcome.log]
        /\ op' = Remember([name |-> "send", pre |-> viewText, post |-> pre.text,
                           ret |-> pre.expanded, expandedIds |-> <<>>,
                           missingIds |-> pre.missingIds,
                           inlineContextOnly |-> pre.inlineContextOnly,
                           snapPre |-> snapshot, mid |-> pre.expandedText,
                           sanitized |-> pre.sanitized])
  /\ now' = now + 1
  /\ UNCHANGED <<rankerLoaded, pure>>

\* a send method without arguments (onSendClick, handleSubmit) that returns
SendFromView ==
  WrappedSend(<<>>, <<>>, CHOOSE c \in RuntimeContexts : c.provider = "", FALSE,
              [kind |-> "returns", value |-> "undefined"], TRUE)

Init ==
  /\ \E mode \in Modes :
       settings = Settings(<<PackB, PackA>>, mode.inline, mode.previews, FALSE, TRUE, TRUE)
  /\ rankerLoaded = TRUE
  /\ viewText \in TextsOf(ViewChunks, MaxChunks)
  /\ snapshot = NoSnapshot
  /\ now = 0
  /\ op = <<NoOp, NoOp>>
  /\ pure = <<>>
  /\ heap = <<>>
  /\ send = NoSend

Next == ExpandInView \/ ResetInView \/ UserEdit \/ SendFromView

Spec == Init /\ [][Next]_vars

(***************************************************************************)
(* Properties of the chat view (specification Spec)                        *)
(***************************************************************************)
\* the first line of a text
FirstLine(text) == SplitLines(text)[1]

\* an expand that found at least one pack, immediately followed by a reset
ExpandThenReset ==
  /\ op[1].name = "expand"
  /\ op[1].expandedIds # <<>>
  /\ op[2].name = "reset"

\* C2 (as stated): expandContextPackInViewInput followed at once by
\* resetContextPackInViewInput restores the input to exactly the text T the
\* view held before the expand, and discards the snapshot.
C2_ResetRestoresExactly ==
  ExpandThenReset => (viewText = op[1].pre /\ snapshot = NoSnapshot)

\* C2 (amended): expand followed at once by reset restores the input to T
\* with its leading and trailing whitespace removed, reports that it applied,
\* and discards the snapshot.
C2_ResetRestoresTrimmed ==
  ExpandThenReset =>
    /\ op[1].ret
    /\ op[2].ret
    /\ viewText = Trim(op[1].pre)
    /\ snapshot = NoSnapshot

\* C2 witness: a reset has undone an expand of a text that began or ended
\* with whitespace
C2_Witness ==
  /\ ExpandThenReset
  /\ op[1].pre # Trim(op[1].pre)
  /\ op[1].post # op[1].pre
  /\ viewText = Trim(op[1].pre)
  /\ snapshot = NoSnapshot

\* C7 (as stated): whenever the text step of the send guard finds an
\* inline-context payload in the surface text, the text afterwards holds the
\* guard sentence exactly once, as its first line.
C7_GuardOnceAndFirst ==
  (op[2].name = "send" /\ op[2].inlineContextOnly) =>
    /\ Occurrences(viewText, INLINE_CONTEXT_ONLY_GUARD) = 1
    /\ FirstLine(viewText) = INLINE_CONTEXT_ONLY_GUARD

(***************************************************************************)
(* expandContextPackReferences applied to a text, then to its own output   *)
(* (specification SpecExpand).  Beside the history of the settings, the    *)
(* same text is expanded against a second history whose packs have the     *)
(* same id, sourceFolders, totalFiles and item keys but other previews or  *)
(* other item paths.                                                       *)
(***************************************************************************)
ExpandChunks == { <<"a">>, <<"kw">>, <<SP>>, <<"@p1">>, <<"@P1">>, <<"@p2">>, <<"@p3">> }

ExpandModes ==
  { [inline |-> TRUE, previews |-> FALSE, auto |-> FALSE],
    [inline |-> TRUE, previews |-> FALSE, auto |-> TRUE],
    [inline |-> TRUE, previews |-> TRUE, auto |-> FALSE],
    [inline |-> FALSE, previews |-> FALSE, auto |-> FALSE] }

\* the same pack with other previews, or with other file paths behind the
\* same mention paths
OtherItem(item, what) ==
  IF what = "previews" THEN [item EXCEPT !.preview = <<"q", SP, "r">> \o @]
  ELSE [item EXCEPT !.path = <<"vault", "/">> \o @]
OtherPack(pack, what) ==
  [pack EXCEPT !.items = AsSeq([i \in 1..Len(pack.items) |-> OtherItem(pack.items[i], what)])]
OtherHistory(packs, what) == AsSeq([i \in 1..Len(packs) |-> OtherPack(packs[i], what)])

NoResult ==
  [text |-> <<>>, expandedIds |-> <<>>, missingIds |-> <<>>, packs |-> <<>>, saved |-> FALSE]

InitExpand ==
  /\ \E packs \in Histories, mode \in ExpandModes :
       settings = Settings(packs, mode.inline, mode.previews, mode.auto, TRUE, TRUE)
  /\ rankerLoaded \in BOOLEAN
  /\ \E text \in TextsOf(ExpandChunks, MaxChunks), what \in {"previews", "paths"} :
       pure = [stage |-> 0, text |-> text, what |-> what, packs |-> <<>>,
               first |-> NoResult, second |-> NoResult, other |-> NoResult]
  /\ viewText = <<>>
  /\ snapshot = NoSnapshot
  /\ now = 0
  /\ op = <<NoOp, NoOp>>
  /\ heap = <<>>
  /\ send = NoSend

\* expandContextPackReferences(pure.text)
ExpandFirst ==
  /\ pure.stage = 0
  /\ \E r \in {expandContextPackReferences(settings, pure.text, now + 1, rankerLoaded)},
        o \in {expandContextPackReferences(
                 [settings EXCEPT !.contextPacks = OtherHistory(@, pure.what)],
                 pure.text, now + 1, rankerLoaded)} :
        /\ pure' = [pure EXCEPT !.stage = 1, !.first = r, !.other = o,
                                !.packs = settings.contextPacks]
        /\ settings' = [settings EXCEPT !.contextPacks = r.packs]
  /\ now' = now + 1
  /\ UNCHANGED <<rankerLoaded, viewText, snapshot, op, heap, send>>

\* expandContextPackReferences(the text the first call returned)
ExpandAgain ==
  /\ pure.stage = 1
  /\ \E r \in {expandContextPackReferences(settings, pure.first.text, now + 1,
                                            rankerLoaded)} :
        /\ pure' = [pure EXCEPT !.stage = 2, !.second = r]
        /\ settings' = [settings EXCEPT !.contextPacks = r.packs]
  /\ now' = now + 1
  /\ UNCHANGED <<rankerLoaded, viewText, snapshot, op, heap, send>>

NextExpand == ExpandFirst \/ ExpandAgain

SpecExpand == InitExpand /\ [][NextExpand]_vars

(***************************************************************************)
(* Properties of expandContextPackReferences (specification SpecExpand)    *)
(***************************************************************************)
TokenCount(text, id) ==
  Cardinality({k \in 1..Len(text) : text[k] \in RefSyms /\ RefId(text[k]) = id})
MarkerCount(text, id) ==
  Cardinality({k \in 1..(Len(text) - 1) : text[k] = "[CP" /\ text[k + 1] = id})
IdsIn(text) == {RefId(text[k]) : k \in {j \in 1..Len(text) : text[j] \in RefSyms}}
PackIds(packs) == {packs[i].id : i \in 1..Len(packs)}

\* C1 (as stated): applying expandContextPackReferences to the text it
\* returned gives back that same text, with no expanded ids.
C1_ExpandIdempotent ==
  pure.stage = 2 =>
    /\ pure.second.text = pure.first.text
    /\ pure.second.expandedIds = <<>>

SummaryMode ==
  /\ settings.contextPackInjectInline
  /\ ~settings.contextPackIncludePreviews
  /\ ~(settings.contextPackAutoPreviewFromQuery /\ HasDetailKeyword(pure.text))

\* the last segments of the source folders of the packs
FolderAliasSyms(packs) ==
  UNION {UNION {SeqSet(folderAliasFromPath(packs[i].sourceFolders[j])) :
                  j \in 1..Len(packs[i].sourceFolders)} : i \in 1..Len(packs)}

\* what a summary rendering may consist of: the pack marker, the guidance
\* line, the folder aliases and the ratio
SummarySyms(packs) ==
  {"[CP", ":", ",inl]", NL, "-[folder]", "-[count]", ",", "/", "selnotes"}
  \cup OneCharSyms \cup SeqSet(INLINE_CONTEXT_ONLY_GUIDANCE)
  \cup PackIds(packs) \cup FolderAliasSyms(packs)

\* C9: in summary mode the expanded text is the same for two histories whose
\* packs differ only in item previews or item paths, and it holds nothing but
\* the input text, the pack marker, the guidance line, the folder aliases and
\* the rankedCount/totalFiles ratio.
C9_SummaryIndependentOfContent ==
  (pure.stage >= 1 /\ SummaryMode) =>
    /\ pure.first.text = pure.other.text
    /\ pure.first.expandedIds = pure.other.expandedIds
    /\ SeqSet(pure.first.text) \subseteq SeqSet(pure.text) \cup SummarySyms(pure.packs)

\* C9 witness: a pack has been expanded in summary mode against both
\* histories
C9_Witness ==
  /\ pure.stage >= 1
  /\ SummaryMode
  /\ pure.first.expandedIds # <<>>
  /\ OtherHistory(pure.packs, pure.what) # pure.packs
  /\ pure.first.text = pure.other.text

(***************************************************************************)
(* Rendering of one note preview in inline-preview mode (specification     *)
(* SpecRedact).  A preview is a string over a word of letters, the word    *)
(* Users, the slash and the blank.                                         *)
(***************************************************************************)
MaxPreviewLen == 5

PreviewSyms == {"a", "U", "/", SP}

RECURSIVE StringsOver(_, _)
StringsOver(alphabet, n) ==
  IF n = 0 THEN { <<>> }
  ELSE LET shorter == StringsOver(alphabet, n - 1)
       IN shorter \cup {Append(t, c) : t \in {u \in shorter : Len(u) = n - 1}, c \in alphabet}

InitRedact ==
  /\ settings = Settings(<<PackA>>, TRUE, TRUE, FALSE, TRUE, TRUE)
  /\ rankerLoaded = TRUE
  /\ \E preview \in StringsOver(PreviewSyms, MaxPreviewLen) :
       pure = [stage |-> 0, preview |-> preview, out |-> <<>>]
  /\ viewText = <<>>
  /\ snapshot = NoSnapshot
  /\ now = 0
  /\ op = <<NoOp, NoOp>>
  /\ heap = <<>>
  /\ send = NoSend

\* buildInlineSnippetTextFromPackItems([item], pack, {includePreviews: true})
RenderPreview ==
  /\ pure.stage = 0
  /\ pure' = [pure EXCEPT
                !.stage = 1,
                !.out = buildInlineSnippetTextFromPackItems(
                          <<Item(<<"f1", "/", "n1">>, pure.preview, <<"f1">>)>>,
                          PackA, TRUE, settings)]
  /\ UNCHANGED <<settings, rankerLoaded, viewText, snapshot, now, op, heap, send>>

NextRedact == RenderPreview

SpecRedact == InitRedact /\ [][NextRedact]_vars

\* /Users/ followed by a character that is not a blank
HasUsersPath(text) ==
  \E i \in 1..(Len(text) - 3) :
    text[i] = "/" /\ text[i + 1] = "U" /\ text[i + 2] = "/" /\ ~IsSpace(text[i + 3])

\* n words of letters and digits in a row with a slash between each two
HasSlashPath(text, n) ==
  \E i \in 1..(Len(text) - 2 * (n - 1)) :
    \A k \in 0..(2 * (n - 1)) :
      IF k % 2 = 0 THEN IsWordSym(text[i + k]) ELSE text[i + k] = "/"

MaxItems == 3

\* three notes, a second entry for the first note, an entry without a mention
\* path and an entry whose mention path is a blank
RankItems ==
  { Item(<<"f1", "/", "n1">>, <<"a", SP, "b">>, <<"f1">>),
    Item(<<"f1", "/", "n2">>, <<"b">>, <<"f1">>),
    Item(<<"f2", "/", "n3">>, <<"a">>, <<"f2">>),
    Item(<<"f1", "/", "n1">>, <<"c">>, <<"f1">>),
    [path |-> <<"f2", "/", "n4">>, mentionPath |-> <<>>, preview |-> <<"a">>,
     folderPath |-> <<"f2">>],
    [path |-> <<"f1", "/", "n5">>, mentionPath |-> <<SP>>, preview |-> <<"a">>,
     folderPath |-> <<"f1">>] }

\* the notes of one folder, one more of them than the default topK
ManyItems ==
  AsSeq([k \in 1..(DefaultTopK + 1) |-> Item(<<"f1", "/", "n", Digit(k)>>, <<"a">>, <<"f1">>)])

\* the item lists rank is called with: every list of at most MaxItems of the
\* RankItems, a pack of three files of one folder, and the long list
RankLists ==
  StringsOver(RankItems, MaxItems) \cup {SubSeq(ManyItems, 1, 3), ManyItems}

\* queries: empty, one token, and one character (no token)
RankQueries == { <<>>, <<"a">>, <<"1">> }

\* options.folderWeights = buildFolderWeightMap(["f1", "f2"])
RankFolders == << <<"f1">>, <<"f2">> >>

\* topK options: undefined, 0, -1, 0.5, 1, 2, 2.5 and 3
TopKValues ==
  {NotANumber, NumVal(0), NumVal(-2), NumVal(1), NumVal(2), NumVal(4), NumVal(5), NumVal(6)}

InitRank ==
  /\ settings = Settings(<<>>, TRUE, FALSE, FALSE, TRUE, TRUE)
  /\ rankerLoaded \in BOOLEAN
  /\ \E items \in RankLists, query \in RankQueries, topK \in TopKValues :
       pure = [stage |-> 0, items |-> items, query |-> query, topK |-> topK,
               out |-> <<>>, ix |-> <<>>, scores |-> <<>>, again |-> <<>>]
  /\ viewText = <<>>
  /\ snapshot = NoSnapshot
  /\ now = 0
  /\ op = <<NoOp, NoOp>>
  /\ heap = <<>>
  /\ send = NoSend

\* the options object of a call
RankOptions ==
  [query |-> pure.query, topK |-> pure.topK, folderWeights |-> buildFolderWeightMap(RankFolders)]

\* rankContextPackItems(items, { query, topK, folderWeights }); beside the
\* returned items the state keeps their indices and the score of every item
Rank ==
  /\ pure.stage = 0
  /\ \E options \in {RankOptions} :
       pure' = [pure EXCEPT
                  !.stage = 1,
                  !.out = rankContextPackItems(pure.items, options, rankerLoaded),
                  !.ix = RankIndices(pure.items, options, rankerLoaded),
                  !.scores = ScoreAll(pure.items, tokenize(sanitizeText(options.query)),
                                      options.folderWeights)]
  /\ UNCHANGED <<settings, rankerLoaded, viewText, snapshot, now, op, heap, send>>

\* the same call once more
RankAgain ==
  /\ pure.stage = 1
  /\ pure' = [pure EXCEPT !.stage = 2,
                          !.again = rankContextPackItems(pure.items, RankOptions, rankerLoaded)]
  /\ UNCHANGED <<settings, rankerLoaded, viewText, snapshot, now, op, heap, send>>

NextRank == Rank \/ RankAgain

SpecRank == InitRank /\ [][NextRank]_vars

\* C10 (as stated): the sequence rank returns has length at most
\* max(1, topK) when topK is a number of 1 or more, and at most 8 when topK is
\* not a usable number (not a number, or less than 1).
C10_LengthAtMostTopK ==
  pure.stage = 1 =>
    IF pure.topK.isNum /\ pure.topK.half >= 2
    THEN 2 * Len(pure.out) <= Max(2, pure.topK.half)
    ELSE Len(pure.out) <= DefaultTopK

\* the key the dedup loop gives an item: sanitizeText(mentionPath || path) in
\* search-ranker.js, trimmed mentionPath || trimmed path in the fallback
KeyOf(item) == IF rankerLoaded THEN RankerKey(item) ELSE FallbackKey(item)

\* number of distinct non-empty keys among the items of the call
KeyCount ==
  Cardinality({KeyOf(pure.items[i]) : i \in 1..Len(pure.items)} \ {<<>>})

\* the number of items a loop that stops at out.length >= limit returns
Taken(limitHalf) == Min(KeyCount, CeilHalf(limitHalf))

\* C11 (as stated): rank uses an effective topK of 8 whenever the supplied
\* topK is not a number or is less than 1 (0 and every negative number
\* included), and the supplied topK otherwise; the loop stops at that many
\* items, or at the number of distinct keys if there are fewer.
C11_DefaultBelowOne ==
  pure.stage >= 1 =>
    Len(pure.out) = Taken(IF pure.topK.isNum /\ pure.topK.half >= 2
                          THEN pure.topK.half ELSE 2 * DefaultTopK)

\* C11 (amended): rank uses an effective topK of 8 when the supplied topK is
\* not a number or is 0, of 1 when it is a number below 1 other than 0
\* (every negative number, every fraction below 1), and the supplied topK
\* otherwise.
C11_DefaultWhenZeroOrNaN ==
  pure.stage >= 1 =>
    Len(pure.out) = Taken(IF ~pure.topK.isNum \/ pure.topK.half = 0 THEN 2 * DefaultTopK
                          ELSE IF pure.topK.half < 2 THEN 2
                          ELSE pure.topK.half)

\* rank called with topK = -1 on nine notes returns one note
C11_Witness ==
  /\ pure.stage = 1
  /\ pure.topK = NumVal(-2)
  /\ pure.items = ManyItems
  /\ Len(pure.out) = 1

\* entry j stands before entry i after the sort of search-ranker.js
ScoredBefore(j, i) ==
  \/ pure.scores[j] > pure.scores[i]
  \/ (pure.scores[j] = pure.scores[i] /\ j < i)

\* C12: the items rank (search-ranker.js) returns are in order of score
\* descending, items of equal score in order of their index ascending, and a
\* second call with the same arguments returns the same sequence.
C12_ScoreThenIndexOrder ==
  /\ (pure.stage >= 1 /\ rankerLoaded) =>
       /\ Len(pure.out) = Len(pure.ix)
       /\ \A k \in 1..Len(pure.ix) : pure.out[k] = pure.items[pure.ix[k]]
       /\ \A k \in 1..(Len(pure.ix) - 1) : ScoredBefore(pure.ix[k], pure.ix[k + 1])
  /\ pure.stage = 2 => pure.again = pure.out

\* a call whose result holds two items of equal score and an item that stood
\* after both in the input, called twice
C12_Witness ==
  /\ pure.stage = 2
  /\ rankerLoaded
  /\ \E k \in 1..(Len(pure.ix) - 1) :
       pure.scores[pure.ix[k]] = pure.scores[pure.ix[k + 1]]
  /\ \E k \in 1..(Len(pure.ix) - 1) : pure.ix[k] > pure.ix[k + 1]

\* entry j is ranked above entry i: by the sort of search-ranker.js, by the
\* index in the fallback
Outranks(j, i) == IF rankerLoaded THEN ScoredBefore(j, i) ELSE j < i

\* C13: no two items rank returns have the same key, no returned item has an
\* empty key, and a returned item is the highest-ranked of the items that
\* have its key.
C13_DistinctKeysBestKept ==
  pure.stage >= 1 =>
    /\ \A k \in 1..Len(pure.ix) : pure.out[k] = pure.items[pure.ix[k]]
    /\ \A k, l \in 1..Len(pure.out) :
         k # l => KeyOf(pure.out[k]) # KeyOf(pure.out[l])
    /\ \A k \in 1..Len(pure.out) : KeyOf(pure.out[k]) # <<>>
    /\ \A k \in 1..Len(pure.ix), j \in 1..Len(pure.items) :
         KeyOf(pure.items[j]) = KeyOf(pure.out[k]) => ~Outranks(j, pure.ix[k])

\* a call on items of which one has an empty key and two have the same key,
\* the later of the two being returned
C13_Witness ==
  /\ pure.stage = 1
  /\ \E i \in 1..Len(pure.items) : KeyOf(pure.items[i]) = <<>>
  /\ \E k \in 1..Len(pure.ix), j \in 1..Len(pure.items) :
       j < pure.ix[k] /\ KeyOf(pure.items[j]) = KeyOf(pure.out[k])

\* the query of the call has no tokens
NoTokens == tokenize(sanitizeText(pure.query)) = <<>>

\* all items of the call are in one folder
OneFolder ==
  \A i, j \in 1..Len(pure.items) :
    sanitizeText(pure.items[i].folderPath) = sanitizeText(pure.items[j].folderPath)

\* items[i] is the first item with its key, and the key is not empty
FirstOfKey(i) ==
  /\ KeyOf(pure.items[i]) # <<>>
  /\ \A j \in 1..(i - 1) : KeyOf(pure.items[j]) # KeyOf(pure.items[i])

\* C14: when the query has no tokens and the items are in one folder, rank
\* (search-ranker.js) returns the first distinct-key items in insertion
\* order, as many as the effective topK allows; and the positional bonus is
\* applied only when the query has no tokens: with tokens in the query two
\* entries for the same item have the same score at every index, without
\* tokens their scores differ by the difference of their indices / 200.
C14_EmptyQueryInsertionOrder ==
  (pure.stage >= 1 /\ rankerLoaded) =>
    /\ (NoTokens /\ OneFolder) =>
         /\ \A k \in 1..(Len(pure.ix) - 1) : pure.ix[k] < pure.ix[k + 1]
         /\ \A k \in 1..Len(pure.ix) : FirstOfKey(pure.ix[k])
         /\ \A k \in 1..Len(pure.ix) : \A i \in 1..pure.ix[k] :
              FirstOfKey(i) => \E l \in 1..k : pure.ix[l] = i
         /\ Len(pure.out) = Taken(EffectiveTopKHalf(pure.topK))
         /\ \A k \in 1..Len(pure.ix) : pure.out[k] = pure.items[pure.ix[k]]
    /\ \A i, j \in 1..Len(pure.items) :
         pure.items[i] = pure.items[j] =>
           pure.scores[i] - pure.scores[j] = (IF NoTokens THEN j - i ELSE 0)

\* a pack of three files of one folder, topK = 2 and an empty query: the first
\* two items are returned
C14_Witness ==
  /\ pure.stage = 1
  /\ rankerLoaded
  /\ pure.items = SubSeq(ManyItems, 1, 3)
  /\ pure.topK = NumVal(4)
  /\ pure.query = <<>>
  /\ pure.out = SubSeq(ManyItems, 1, 2)

(***************************************************************************)
(* Send calls with a payload (specification SpecGuard)                     *)
(***************************************************************************)
ChainLen == 11   \* objects in the payload that nests objects under "payload"
LongArrayLen == 25

\* { tools: [a, b], options: { tools: [c] }, nested: { tool_choice: "auto" } }
ExamplePayload ==
  << Obj([tools |-> "[a,b]", options |-> "@2", nested |-> "@3"]),
     Obj([tools |-> "[c]"]),
     Obj([tool_choice |-> "auto"]) >>

\* a request with tool settings under the known keys payload and options
KnownKeysPayload ==
  << Obj([model |-> "m0", selectedModel |-> "m0", apiMode |-> "responses",
          tools |-> "[a,b]", payload |-> "@2", thinking |-> "true"]),
     Obj([tool_choice |-> "auto", toolChoice |-> "required", availableTools |-> "[c]",
          enabledTools |-> "[c]", allowTools |-> "true", toolsEnabled |-> "true",
          options |-> "@3", reasoning |-> "@4"]),
     Obj([tools |-> "[c]", allowTools |-> "true", enableTools |-> "true", think |-> "true"]),
     Obj([enabled |-> "true"]) >>

\* one object held under two keys
SharedPayload ==
  << Obj([payload |-> "@2", request |-> "@2"]), Obj([tool_choice |-> "auto", tools |-> "[c]"]) >>

\* two objects that hold each other, and an object that holds itself
CyclicPayload ==
  << Obj([payload |-> "@2", tool_choice |-> "auto"]), Obj([request |-> "@1", tools |-> "[c]"]) >>
SelfPayload == << Obj([options |-> "@1", tools |-> "[c]", allowTools |-> "true"]) >>

\* messages: [ {text, tool_choice}, "hello", new Date() ]
MessagesPayload ==
  << Obj([messages |-> "@2"]), Arr(<<"@3", "hello", "@4">>),
     Obj([text |-> "hello", tool_choice |-> "auto"]), Inst >>

\* an object with nothing of a request in it
MetaPayload == << Obj([meta |-> "hello"]) >>

\* a request whose messages hold an object without a request key, with mode
\* and model fields of its own
ModePayload ==
  << Obj([model |-> "m0", api_mode |-> "hello", prompt |-> "hello", messages |-> "@2"]),
     Arr(<<"@3">>),
     Obj([meta |-> "hello", apiMode |-> "hello", api_mode |-> "hello",
          selectedModel |-> "m0"]) >>

\* payload.payload.payload...: the last object asks for tools
ChainPayload ==
  AsSeq([i \in 1..ChainLen |->
          IF i < ChainLen THEN Obj([payload |-> RefNames[i + 1]])
          ELSE Obj([tool_choice |-> "auto", tools |-> "[c]"])])

\* messages with more entries than the walks look at
LongArrayPayload ==
  << Obj([messages |-> "@2"]),
     Arr(AsSeq([i \in 1..LongArrayLen |-> IF i = LongArrayLen THEN "@3" ELSE "hello"])),
     Obj([tool_choice |-> "auto"]) >>

\* a request that went through Object.freeze, holding an object that did not
FrozenPayload ==
  << Freeze(Obj([model |-> "m0", tool_choice |-> "auto", payload |-> "@2"])),
     Obj([tools |-> "[c]"]) >>

\* the argument lists of the send calls: the heap and the arguments
SendCalls ==
  { [h |-> ExamplePayload, args |-> <<"@1">>],
    [h |-> KnownKeysPayload, args |-> <<"hello", "@1">>],
    [h |-> SharedPayload, args |-> <<"@1">>],
    [h |-> CyclicPayload, args |-> <<"@1">>],
    [h |-> SelfPayload, args |-> <<"@1">>],
    [h |-> MessagesPayload, args |-> <<"@1">>],
    [h |-> MetaPayload, args |-> <<"@1">>],
    [h |-> ModePayload, args |-> <<"@1">>],
    [h |-> ChainPayload, args |-> <<"@1">>],
    [h |-> LongArrayPayload, args |-> <<"@1">>],
    [h |-> FrozenPayload, args |-> <<"@1">>],
    [h |-> <<>>, args |-> <<>>] }

InitGuard ==
  /\ \E toolless \in BOOLEAN, thinking \in BOOLEAN :
       settings = Settings(<<PackB, PackA>>, TRUE, FALSE, FALSE, toolless, thinking)
  /\ rankerLoaded = TRUE
  /\ viewText \in { <<"a">>, <<"a", SP, "@p1">> }
  /\ \E call \in SendCalls : heap = call.h /\ pure = [args |-> call.args]
  /\ snapshot = NoSnapshot
  /\ now = 0
  /\ op = <<NoOp, NoOp>>
  /\ send = NoSend

\* the host calls a wrapped send method with the payload
GuardedSend ==
  /\ ~send.called
  /\ \E runtimeContext \in RuntimeContexts, isAsyncFunction \in BOOLEAN,
        behaviour \in Behaviours, syncOk \in BOOLEAN :
       /\ isAsyncFunction => behaviour.kind \in {"resolves", "rejects"}
       /\ WrappedSend(heap, pure.args, runtimeContext, isAsyncFunction, behaviour, syncOk)

NextGuard == GuardedSend

SpecGuard == InitGuard /\ [][NextGuard]_vars

(***************************************************************************)
(* Properties of a guarded send (specification SpecGuard)                  *)
(***************************************************************************)
Failed == send.called /\ send.behaviour.kind \in {"throws", "rejects"}

\* C4: when the original send method throws or returns a promise that
\* rejects, the caller of the wrapped method gets the same error (thrown, or
\* as the rejection of the promise it is handed), never a normal return or
\* another error, and a "send-failed" entry with the error's message is
\* logged.
C4_FailureReRaised ==
  Failed =>
    /\ send.outcome.kind \in {"threw", "rejected"}
    /\ send.outcome.kind = "threw" =>
         (send.behaviour.kind = "throws" /\ ~send.isAsync)
    /\ send.outcome.value = send.behaviour.value
    /\ \E i \in DOMAIN send.log :
         send.log[i] = [phase |-> "send-failed", error |-> ErrMessage(send.behaviour.value)]

\* a synchronous send method threw a string, and the caller got it thrown
C4_Witness ==
  /\ Failed /\ ~send.isAsync
  /\ send.behaviour = [kind |-> "throws", value |-> "str:fail"]
  /\ send.outcome.kind = "threw" /\ send.outcome.value = "str:fail"

ToolArrayKeys == {"tools", "availableTools", "enabledTools"}
HoldsTools(h, a, key) == IsArray(h, h[a].f[key]) /\ h[a].f[key] # "[]"
AsksForTools(h, a, key) == h[a].f[key] \notin {"absent", "none"}
ToolKeys == ToolArrayKeys \cup {"tool_choice", "toolChoice"}
ToolFields(h, a) == [key \in ToolKeys |-> h[a].f[key]]

\* the cells one step from cell a: under a nested key of an object, or among
\* the first cap elements of an array
Children(h, a, cap) ==
  IF h[a].kind = "obj"
  THEN {AddrOf(h[a].f[NestedKeys[k]]) :
          k \in {j \in 1..Len(NestedKeys) : IsObjectCell(h, h[a].f[NestedKeys[j]])}}
  ELSE {AddrOf(h[a].e[k]) :
          k \in {j \in 1..Min(cap, Len(h[a].e)) : IsObjectCell(h, h[a].e[j])}}

\* the cells at most d steps from the cells of S
RECURSIVE Within(_, _, _, _)
Within(h, S, d, cap) ==
  IF d = 0 THEN S
  ELSE Within(h, S \cup UNION {Children(h, a, cap) : a \in S}, d - 1, cap)

ArgCells(h, args) == {AddrOf(args[i]) : i \in {j \in DOMAIN args : IsObjectCell(h, args[j])}}

ToollessSend == send.called /\ send.toolless

\* C5 (as stated): after a send with inline context and tool suppression on,
\* no object of the payload asks for tools (tool_choice, toolChoice) or holds
\* a non-empty tools, availableTools or enabledTools array.
C5_EveryToolChoiceNone ==
  ToollessSend =>
    \A a \in DOMAIN heap :
      heap[a].kind = "obj" =>
        /\ \A key \in {"tool_choice", "toolChoice"} : ~AsksForTools(heap, a, key)
        /\ \A key \in ToolArrayKeys : ~HoldsTools(heap, a, key)

\* C5 (amended): after such a send, every plain object that is at most 4
\* steps from the arguments through the known nested keys and the first 20
\* elements of arrays, and that had a request key, has tool_choice and
\* toolChoice "none", no non-empty tool array, and no non-empty tools array in
\* its options object; an object that cannot be reached through the known
\* nested keys and array elements keeps its tool fields.
C5_KnownKeysSuppressed ==
  ToollessSend =>
    /\ \A a \in Within(send.before, ArgCells(send.before, send.args),
                       CollectDepthCap, CollectArrayCap) :
         (send.before[a].kind = "obj" /\ hasRequestShape(send.before, a)) =>
           /\ heap[a].f["tool_choice"] = "none" /\ heap[a].f["toolChoice"] = "none"
           /\ \A key \in ToolArrayKeys : ~HoldsTools(heap, a, key)
           /\ isPlainObject(heap, heap[a].f["options"]) =>
                ~HoldsTools(heap, AddrOf(heap[a].f["options"]), "tools")
    /\ \A a \in DOMAIN heap \ Within(send.before, ArgCells(send.before, send.args),
                                     Len(heap), Len(heap)) :
         ToolFields(heap, a) = ToolFields(send.before, a)

\* the payload { tools: [a, b], options: { tools: [c] }, nested: {
\* tool_choice: "auto" } } was sent: both tools arrays are empty and the
\* tool_choice under "nested" is still "auto"
C5_Witness ==
  /\ ToollessSend /\ send.before = ExamplePayload
  /\ heap[1].f["tools"] = "[]" /\ heap[2].f["tools"] = "[]"
  /\ heap[1].f["tool_choice"] = "none"
  /\ heap[3].f["tool_choice"] = "auto"

(***************************************************************************)
(* The tool-suppression walk on its own (specification SpecWalk)           *)
(***************************************************************************)
MaxObjs == 2   \* objects of a generated payload

\* object a of a generated payload: tool settings, and "payload" and
\* "options" holding nothing or any object of the payload
GraphObj(edges) ==
  Obj([tools |-> "[c]", allowTools |-> "true", tool_choice |-> "auto",
       payload |-> edges[1], options |-> edges[2]])

EdgeVals(n) == {"absent"} \cup {RefNames[i] : i \in 1..n}

\* every payload of n such objects, shared and cyclic ones included
GraphHeaps(n) ==
  {AsSeq([a \in 1..n |-> GraphObj(g[a])]) :
     g \in [1..n -> EdgeVals(n) \X EdgeVals(n)]}

WalkHeaps ==
  GraphHeaps(MaxObjs) \cup {call.h : call \in SendCalls}

InitWalk ==
  /\ heap \in WalkHeaps
  /\ \E root \in {RefNames[i] : i \in 1..MaxObjs} \cup {"hello", "null"} :
       pure = [stage |-> 0, root |-> root, before |-> heap, once |-> heap]
  /\ settings = Settings(<<PackB, PackA>>, TRUE, FALSE, FALSE, TRUE, TRUE)
  /\ rankerLoaded = TRUE
  /\ viewText = <<>>
  /\ snapshot = NoSnapshot
  /\ now = 0
  /\ op = <<NoOp, NoOp>>
  /\ send = NoSend

\* applyToolSuppressionInPayload(root)
SuppressOnce ==
  /\ pure.stage = 0
  /\ \E h1 \in {applyToolSuppressionInPayload(heap, pure.root)} :
       /\ heap' = h1
       /\ pure' = [pure EXCEPT !.stage = 1, !.once = h1]
  /\ UNCHANGED <<settings, rankerLoaded, viewText, snapshot, now, op, send>>

\* applyToolSuppressionInPayload(root), on the payload it has been applied
\* to, after the caller caught what the first call threw
SuppressAgain ==
  /\ pure.stage = 1
  /\ heap' = applyToolSuppressionInPayload(Caught(heap), pure.root)
  /\ pure' = [pure EXCEPT !.stage = 2]
  /\ UNCHANGED <<settings, rankerLoaded, viewText, snapshot, now, op, send>>

NextWalk == SuppressOnce \/ SuppressAgain

SpecWalk == InitWalk /\ [][NextWalk]_vars

\* C6: the payload after applyToolSuppressionInPayload has been applied to
\* it twice is the payload after it was applied once, for payloads with
\* shared and cyclic references too.
C6_SuppressTwiceSameAsOnce ==
  pure.stage = 2 => heap = pure.once

\* the walk ran twice on two objects that hold each other, and changed them
C6_Witness ==
  /\ pure.stage = 2
  /\ pure.before = CyclicPayload /\ pure.root = "@1"
  /\ heap # pure.before
  /\ heap[2].f["tools"] = "[]" /\ heap[1].f["tool_choice"] = "none"

(***************************************************************************)
(* Termination of the payload walks (specification SpecWalk)               *)
(***************************************************************************)
\* the objects a walk from v has patched, in the order of their seen.add
ToolLog(h, v) == ToolWalk(NewWalk(h), v, 0).log
ThinkLog(h, v) == ThinkWalk(NewWalk(h), v, 0).log
NoRepeats(s) == \A i \in 1..Len(s) : \A j \in 1..Len(s) : s[i] = s[j] => i = j
\* the options objects of the objects of S, which the walk patches from
\* their holder
OptionsOf(h, S) ==
  {AddrOf(h[a].f["options"]) :
     a \in {b \in S : h[b].kind = "obj" /\ isPlainObject(h, h[b].f["options"])}}

\* C19 (as stated): the walk never throws, whatever the payload.
C19_WalkNeverThrows ==
  pure.stage >= 1 => ~Threw(heap)

\* C19 (what holds of the walks): on every payload, with shared and cyclic
\* references and with a value that is no object, each walk ends: the
\* tool walk and the thinking walk patch an object at most once a call,
\* collectMutableSendObjects collects an object at most once, the tool walk
\* patches only objects at most 5 steps from its root, every other object
\* (but the options object of a patched one) is left as it was, and a root
\* that is no object leaves the payload as it was.
C19_WalkEndsEachObjectOnce ==
  pure.stage >= 1 =>
    /\ DOMAIN pure.once = DOMAIN pure.before
    /\ NoRepeats(ToolLog(pure.before, pure.root))
    /\ NoRepeats(ThinkLog(pure.before, pure.root))
    /\ NoRepeats(collectMutableSendObjects(pure.before, <<pure.root>>))
    /\ SeqSet(ToolLog(pure.before, pure.root)) \subseteq
         Within(pure.before, ArgCells(pure.before, <<pure.root>>), WalkDepthCap, WalkArrayCap)
    /\ \A a \in DOMAIN pure.before :
         a \notin SeqSet(ToolLog(pure.before, pure.root))
                    \cup OptionsOf(pure.before, SeqSet(ToolLog(pure.before, pure.root)))
           => pure.once[a] = pure.before[a]
    /\ ~IsObjectCell(pure.before, pure.root) => pure.once = pure.before

\* the walks ran on two objects that hold each other and patched each once
C19_Witness ==
  /\ pure.stage = 1
  /\ pure.before = CyclicPayload /\ pure.root = "@1"
  /\ ToolLog(pure.before, pure.root) = <<1, 2>>
  /\ ThinkLog(pure.before, pure.root) = <<1, 2>>
  /\ heap[1].f["tool_choice"] = "none" /\ heap[2].f["tools"] = "[]"

\* the walk ran on the payload that nests objects under "payload": the first
\* 6 were patched and the last one still asks for tools
C19_DeepWitness ==
  /\ pure.stage = 1
  /\ pure.before = ChainPayload /\ pure.root = "@1"
  /\ ToolLog(pure.before, pure.root) = <<1, 2, 3, 4, 5, 6>>
  /\ heap[6].f["tool_choice"] = "none"
  /\ heap[ChainLen].f["tool_choice"] = "auto"

(***************************************************************************)
(* Pack Store: normalizeMentionPath, collectMentionFilePaths,              *)
(* extractPreviewText, readNotePreview, createContextPackFromSelections    *)
(*                                                                         *)
(* A file path is a sequence of symbols that ends with the extension,      *)
(* ".md" or ".MD".  The content of a note is a text with the symbols       *)
(* "---" (a line of three dashes), "[[", "|" and "]]" (a link), and the    *)
(* markup characters.                                                      *)
(***************************************************************************)
MdExts == {".md", ".MD"}

RECURSIVE StripLeadingSlashes(_)
StripLeadingSlashes(s) ==
  IF s # <<>> /\ Head(s) = "/" THEN StripLeadingSlashes(Tail(s)) ELSE s

RECURSIVE StripTrailingSlashes(_)
StripTrailingSlashes(s) ==
  IF s # <<>> /\ s[Len(s)] = "/" THEN StripTrailingSlashes(SubSeq(s, 1, Len(s) - 1)) ELSE s

\* /\.md$/i removed from the end of p
StripMdExt(p) == IF p # <<>> /\ p[Len(p)] \in MdExts THEN SubSeq(p, 1, Len(p) - 1) ELSE p

\* normalizeMentionPath(filePath)
normalizeMentionPath(filePath) == StripMdExt(StripLeadingSlashes(sanitizeString(filePath)))

\* .filter(Boolean) on an array of strings
DropEmpty(ss) ==
  Flatten(AsSeq([i \in 1..Len(ss) |-> IF ss[i] = <<>> THEN <<>> ELSE <<ss[i]>>]))

\* String.prototype.startsWith
StartsWith(s, prefix) == Len(s) >= Len(prefix) /\ SubSeq(s, 1, Len(prefix)) = prefix

\* sanitizeStringArray(folderPaths) without trailing slashes, empty ones dropped
NormalFolders(folderPaths) ==
  DropEmpty(AsSeq([i \in 1..Len(sanitizeStringArray(folderPaths)) |->
                     StripTrailingSlashes(sanitizeStringArray(folderPaths)[i])]))

\* sanitizeStringArray(filePaths) without leading slashes
NormalFiles(filePaths) ==
  AsSeq([i \in 1..Len(sanitizeStringArray(filePaths)) |->
           StripLeadingSlashes(sanitizeStringArray(filePaths)[i])])

\* the file is under one of the folders or is one of the files
IsSelected(filePath, folders, files) ==
  \/ \E i \in 1..Len(folders) : StartsWith(filePath, folders[i] \o <<"/">>)
  \/ \E i \in 1..Len(files) : files[i] = filePath

\* collectMentionFilePaths(folderPaths, filePaths), allFiles being
\* getMarkdownFilePaths(): distinct paths in localeCompare order.  The
\* selected paths are a set of allFiles sorted by localeCompare again, which
\* is allFiles without the paths that were not selected.
collectMentionFilePaths(allFiles, folderPaths, filePaths) ==
  Flatten(AsSeq([i \in 1..Len(allFiles) |->
            IF IsSelected(allFiles[i], NormalFolders(folderPaths), NormalFiles(filePaths))
            THEN <<allFiles[i]>> ELSE <<>>]))

\* the first position >= i of a symbol of S in s, Len(s) + 1 if there is none
RECURSIVE FirstIn(_, _, _)
FirstIn(s, S, i) ==
  IF i > Len(s) THEN Len(s) + 1
  ELSE IF s[i] \in S THEN i ELSE FirstIn(s, S, i + 1)

\* the position after the blanks and line breaks that begin at i
RECURSIVE SkipSpace(_, _)
SkipSpace(s, i) == IF i <= Len(s) /\ IsSpace(s[i]) THEN SkipSpace(s, i + 1) ELSE i

\* the last line break of the blank run that begins at i, 0 if it has none
LastBreak(s, i) ==
  IF \E k \in i..(SkipSpace(s, i) - 1) : s[k] = NL
  THEN CHOOSE k \in i..(SkipSpace(s, i) - 1) :
         s[k] = NL /\ \A l \in (k + 1)..(SkipSpace(s, i) - 1) : s[l] # NL
  ELSE 0

\* the first position j >= from with s[j] a line break and s[j + 1] = "---",
\* 0 if there is none
ClosingFence(s, from) ==
  IF \E j \in from..(Len(s) - 1) : s[j] = NL /\ s[j + 1] = "---"
  THEN CHOOSE j \in from..(Len(s) - 1) :
         /\ s[j] = NL /\ s[j + 1] = "---"
         /\ \A l \in from..(j - 1) : ~(s[l] = NL /\ s[l + 1] = "---")
  ELSE 0

\* the line break before the closing "---" of a block whose opening "---" is
\* followed by a blank run with last line break lk (0 if there is none): the
\* first one after lk, or lk itself when the run holds an earlier line break
\* for the opening line
FenceClose(s, i, lk) ==
  IF lk = 0 THEN 0
  ELSE IF ClosingFence(s, lk + 1) # 0 THEN ClosingFence(s, lk + 1)
  ELSE IF /\ lk < Len(s) /\ s[lk + 1] = "---"
          /\ \E k \in (i + 1)..(lk - 1) : s[k] = NL
       THEN lk
       ELSE 0

\* /^---\s*\n[\s\S]*?\n---\s*\n?/m matches at position i of s
FenceAt(s, i) ==
  /\ s[i] = "---" /\ (i = 1 \/ s[i - 1] = NL)
  /\ FenceClose(s, i, LastBreak(s, i + 1)) # 0

\* source.replace(/^---\s*\n[\s\S]*?\n---\s*\n?/m, ""): the first front-matter
\* block removed, with the blanks and line breaks after its closing line
StripFrontMatter(s) ==
  IF \E i \in 1..Len(s) : FenceAt(s, i)
  THEN TheOne({SubSeq(s, 1, i - 1)
               \o SubSeq(s, SkipSpace(s, FenceClose(s, i, LastBreak(s, i + 1)) + 2), Len(s)) :
               i \in {CHOOSE i \in 1..Len(s) :
                        FenceAt(s, i) /\ \A l \in 1..(i - 1) : ~FenceAt(s, l)}})
  ELSE s

\* the markup characters of a note (the backquote is left out of the model's
\* notes); "[[" and "]]" are two of them each
MarkupSyms == {"#", ">", "*", "~", "[", "]", "(", ")", "!"}
BracketSyms == {"[[", "]]"}

\* the symbols of a link after the last "/"
AfterLastSlash(s) ==
  IF \E i \in 1..Len(s) : s[i] = "/"
  THEN SubSeq(s, 1 + (CHOOSE i \in 1..Len(s) :
                        s[i] = "/" /\ \A l \in (i + 1)..Len(s) : s[l] # "/"), Len(s))
  ELSE s

\* the replacement of [[link]]: the last part of the trimmed link, or the
\* trimmed link when that part is blank
LinkName(link) ==
  IF Trim(link) = <<>> THEN <<>>
  ELSE IF Trim(AfterLastSlash(Trim(link))) = <<>> THEN Trim(link)
  ELSE Trim(AfterLastSlash(Trim(link)))

\* s begins with "[[", e is the position of the first "]" or "]]" after it:
\* /\[\[([^\]|]+)\|([^\]]+)\]\]/ matches at the beginning of s
AliasLinkAt(s, e) ==
  /\ e <= Len(s) /\ s[e] = "]]"
  /\ FirstIn(s, {"|"}, 2) \in 3..(e - 2)

\* .replace(/\[\[([^\]|]+)\|([^\]]+)\]\]/g, "$2")
RECURSIVE RewriteAliasLinks(_)
RewriteAliasLinks(s) ==
  IF s = <<>> THEN <<>>
  ELSE IF Head(s) = "[[" /\ AliasLinkAt(s, FirstIn(s, {"]", "]]"}, 2))
       THEN SubSeq(s, FirstIn(s, {"|"}, 2) + 1, FirstIn(s, {"]", "]]"}, 2) - 1)
            \o RewriteAliasLinks(SubSeq(s, FirstIn(s, {"]", "]]"}, 2) + 1, Len(s)))
       ELSE <<Head(s)>> \o RewriteAliasLinks(Tail(s))

\* .replace(/\[\[([^\]]+)\]\]/g, (_match, link) => ...)
RECURSIVE RewritePlainLinks(_)
RewritePlainLinks(s) ==
  IF s = <<>> THEN <<>>
  ELSE IF /\ Head(s) = "[["
          /\ FirstIn(s, {"]", "]]"}, 2) \in 3..Len(s)
          /\ s[FirstIn(s, {"]", "]]"}, 2)] = "]]"
       THEN LinkName(SubSeq(s, 2, FirstIn(s, {"]", "]]"}, 2) - 1))
            \o RewritePlainLinks(SubSeq(s, FirstIn(s, {"]", "]]"}, 2) + 1, Len(s)))
       ELSE <<Head(s)>> \o RewritePlainLinks(Tail(s))

\* .replace(/[#>*~\[\]\(\)!]/g, " "), the backquote aside
BlankMarkup(s) ==
  Flatten(AsSeq([i \in 1..Len(s) |->
            IF s[i] \in MarkupSyms THEN <<SP>>
            ELSE IF s[i] \in BracketSyms THEN <<SP, SP>>
            ELSE <<s[i]>>]))

PreviewSliceCap == 320

\* extractPreviewText(rawText)
extractPreviewText(rawText) ==
  TheOne({SubSeq(collapsed, 1, Min(PreviewSliceCap, Len(collapsed))) :
           collapsed \in {Trim(BlankMarkup(RewritePlainLinks(RewriteAliasLinks(
                            CollapseWhitespace(sanitizeString(StripFrontMatter(rawText)))))))}})

\* a reader that returns the excerpt of a note whether its read fails or not
\* (variant of readNotePreview)
readIgnoringFailure(filePath, notes, failing) ==
  IF sanitizeString(filePath) = <<>> THEN <<>>
  ELSE extractPreviewText(notes[sanitizeString(filePath)])

\* readNotePreview(filePath): notes is the content of the vault's files,
\* failing the set of paths whose adapter.read() rejects
readNotePreview(filePath, notes, failing) ==
  IF sanitizeString(filePath) = <<>> THEN <<>>
  ELSE IF sanitizeString(filePath) \in failing THEN <<>>
  ELSE extractPreviewText(notes[sanitizeString(filePath)])

MinItemLimit == 20
MaxItemLimit == 800
DefaultItemLimit == 240

\* Math.max(20, Math.min(800, Number(this.settings.contextPackMaxItems) || 240)),
\* as files.slice(0, limit) uses it: without its fraction
ItemLimit(maxItems) ==
  Max(MinItemLimit,
      Min(MaxItemLimit,
          IF maxItems.isNum /\ maxItems.half # 0 THEN maxItems.half \div 2
          ELSE DefaultItemLimit))

\* filePath.includes("/") ? filePath.slice(0, filePath.lastIndexOf("/")) : ""
FolderOf(filePath) ==
  IF \E i \in 1..Len(filePath) : filePath[i] = "/"
  THEN SubSeq(filePath, 1, (CHOOSE i \in 1..Len(filePath) :
                              filePath[i] = "/"
                              /\ \A l \in (i + 1)..Len(filePath) : filePath[l] # "/") - 1)
  ELSE <<>>

\* the callback of selected.map(...): <<item>>, or <<>> (null) for a file
\* without mention path
ItemOf(filePath, notes, failing) ==
  IF normalizeMentionPath(filePath) = <<>> THEN <<>>
  ELSE << [path |-> filePath,
           mentionPath |-> normalizeMentionPath(filePath),
           preview |-> readNotePreview(filePath, notes, failing),
           folderPath |-> FolderOf(filePath)] >>

RECURSIVE FirstOfMention(_, _)
FirstOfMention(items, out) ==
  IF items = <<>> THEN out
  ELSE FirstOfMention(Tail(items),
         IF \E k \in 1..Len(out) : out[k].mentionPath = Head(items).mentionPath
         THEN out ELSE Append(out, Head(items)))

\* a creation that keeps only the first item of every mention path (variant
\* of PackItems)
PackItemsFirstOfMention(selected, notes, failing) ==
  FirstOfMention(
    Flatten(AsSeq([i \in 1..Len(selected) |-> ItemOf(selected[i], notes, failing)])), <<>>)

\* (await Promise.all(selected.map(...))).filter(Boolean)
PackItems(selected, notes, failing) ==
  Flatten(AsSeq([i \in 1..Len(selected) |-> ItemOf(selected[i], notes, failing)]))

\* the digits of Number.prototype.toString(36)
Digits36 ==
  <<"0", "1", "2", "3", "4", "5", "6", "7", "8", "9", "a", "b", "c", "d", "e", "f", "g", "h",
    "i", "j", "k", "l", "m", "n", "o", "p", "q", "r", "s", "t", "u", "v", "w", "x", "y", "z">>

\* n.toString(36) of a non-negative integer, character by character
RECURSIVE Base36(_)
Base36(n) ==
  IF n < 36 THEN <<Digits36[n + 1]>>
  ELSE Append(Base36(n \div 36), Digits36[(n % 36) + 1])

\* chars.padStart(width, fill)
PadStart(chars, width, fill) ==
  AsSeq([i \in 1..(width - Len(chars)) |-> fill]) \o chars

\* the string of a sequence of characters
RECURSIVE Concat(_)
Concat(chars) == IF chars = <<>> THEN "" ELSE Head(chars) \o Concat(Tail(chars))

\* createContextPackId() character by character: t is Date.now(), rand is
\* Math.floor(Math.random() * 36 ** 4)
PackIdChars(t, rand) ==
  <<"c", "p", "-">> \o Base36(t) \o <<"-">> \o PadStart(Base36(rand), 4, "0")

\* createContextPackId(): Date.now() in base 36 and four random digits
createContextPackId(t, rand) == Concat(PackIdChars(t, rand))

\* buildContextPackReference(packId); "@<id>" stands for "@context-pack(<id>)"
buildContextPackReference(packId) == "@" \o packId

PathsOf(items) == AsSeq([i \in 1..Len(items) |-> items[i].path])

WithoutId(packs, id) ==
  Flatten(AsSeq([i \in 1..Len(packs) |-> IF packs[i].id # id THEN <<packs[i]>> ELSE <<>>]))

\* a store that puts the new pack behind the others and drops nothing (variant
\* of StorePack)
StorePackBehind(packs, pack) == Append(packs, pack)

\* [pack, ...contextPacks.filter((entry) => entry.id !== pack.id)].slice(0, 40)
StorePack(packs, pack) ==
  SubSeq(<<pack>> \o WithoutId(packs, pack.id), 1,
         Min(ContextPackHistoryCap, 1 + Len(WithoutId(packs, pack.id))))

\* a creation that stores a pack even when there are no items (variant of
\* CreateFromItems)
CreateEvenIfEmpty(st, files, items, folderPaths, t, rand) ==
  TheOne({[result |-> [reference |-> buildContextPackReference(pack.id),
                       packId |-> pack.id, count |-> Len(items),
                       truncated |-> Len(files) > Len(items), total |-> Len(files)],
           packs |-> StorePack(st.contextPacks, pack), saved |-> TRUE] :
          pack \in {sanitizeContextPack(
                      [id |-> createContextPackId(t, rand), createdAt |-> t,
                       sourceFolders |-> sanitizeStringArray(folderPaths),
                       filePaths |-> PathsOf(items), items |-> items,
                       topK |-> st.contextPackTopK, lastUsedAt |-> 0], 0)}})

\* the second half of createContextPackFromSelections: files is the result of
\* collectMentionFilePaths, items the items built from them
CreateFromItems(st, files, items, folderPaths, t, rand) ==
  IF items = <<>>
  THEN [result |-> [reference |-> "", packId |-> "", count |-> 0, truncated |-> FALSE,
                    total |-> Len(files)],
        packs |-> st.contextPacks, saved |-> FALSE]
  ELSE TheOne({[result |-> [reference |-> buildContextPackReference(pack.id),
                            packId |-> pack.id, count |-> Len(items),
                            truncated |-> Len(files) > Len(items), total |-> Len(files)],
                packs |-> StorePack(st.contextPacks, pack), saved |-> TRUE] :
               pack \in {sanitizeContextPack(
                           [id |-> createContextPackId(t, rand), createdAt |-> t,
                            sourceFolders |-> sanitizeStringArray(folderPaths),
                            filePaths |-> PathsOf(items), items |-> items,
                            topK |-> st.contextPackTopK, lastUsedAt |-> 0], 0)}})

\* createContextPackFromSelections(folderPaths, filePaths) at time t: allFiles
\* and notes are the vault, failing the paths whose read fails, rand the
\* random part of the id
createContextPackFromSelections(st, allFiles, notes, failing, folderPaths, filePaths, t, rand) ==
  TheOne({CreateFromItems(st, files,
                          PackItems(SubSeq(files, 1, Min(Len(files),
                                                         ItemLimit(st.contextPackMaxItems))),
                                    notes, failing),
                          folderPaths, t, rand) :
           files \in {collectMentionFilePaths(allFiles, folderPaths, filePaths)}})

\* loadSettings(): the stored history, normalized when it is read and again
\* at the end
loadSettings(stored) == normalizeContextPacks(normalizeContextPacks(stored))

(***************************************************************************)
(* The vault of the model and the selections made in it                    *)
(***************************************************************************)
Note(folder, name, ext) == <<folder, "/", name, ext>>

\* the notes of folder "big": one more than the smallest item limit
BigNote(k) == <<"big", "/", "n", Digit(k \div 10), Digit(k % 10), ".md">>
BigNotes == AsSeq([k \in 1..(MinItemLimit + 1) |-> BigNote(k)])

\* getMarkdownFilePaths(): the paths of the vault in localeCompare order.
\* f1/n1.md and f1/n1.MD have the same mention path f1/n1.  (The vault holds
\* no file whose name begins with a dot, so no path is only an extension.)
VaultFiles ==
  BigNotes \o << Note("f1", "n1", ".md"), Note("f1", "n1", ".MD"), Note("f1", "n2", ".md"),
                 Note("f2", "n3", ".md") >>

\* adapter.read(path) when it succeeds
NoteText(path) ==
  CASE path = Note("f1", "n1", ".md") ->
         <<"---", NL, "k", NL, "---", NL, "a", NL, NL, "b", SP, "#", "c">>
    [] path = Note("f1", "n1", ".MD") -> <<"[[", "x", "|", "y", "]]", SP, "c">>
    [] path = Note("f1", "n2", ".md") -> <<>>
    [] path = Note("f2", "n3", ".md") -> <<"[[", "f1", "/", "n1", "]]", SP, "(", "a", ")">>
    [] OTHER -> <<"a">>

VaultNotes == [path \in SeqSet(VaultFiles) |-> NoteText(path)]

\* the selections: a folder with two files of one mention path and an empty
\* note, the big folder, a folder without files, a file given with a leading
\* slash, a folder and files of which one is not in the vault, and nothing
Selections ==
  { [folders |-> << <<"f1">> >>, files |-> <<>>],
    [folders |-> << <<"big", "/">> >>, files |-> <<>>],
    [folders |-> << <<"f3">> >>, files |-> <<>>],
    [folders |-> <<>>, files |-> << <<"/", "f2", "/", "n3", ".md">> >>],
    [folders |-> << <<SP, "f1">> >>,
     files |-> << Note("f2", "n3", ".md"), Note("f2", "n9", ".md") >>],
    [folders |-> <<>>, files |-> <<>>] }

\* the sets of files whose read fails
ReadFailures ==
  SUBSET {Note("f1", "n1", ".md"), Note("f2", "n3", ".md"), BigNote(1)}
    \cup {SeqSet(VaultFiles)}

\* the settings of the store
StoreSettings(packs, maxItems) ==
  [contextPacks |-> packs,
   contextPackInjectInline |-> TRUE,
   contextPackIncludePreviews |-> FALSE,
   contextPackAutoPreviewFromQuery |-> FALSE,
   contextPackForceToollessSend |-> TRUE,
   suppressThinkingSignals |-> TRUE,
   contextPackTopK |-> NumVal(16),
   contextPackMaxItems |-> maxItems]

(***************************************************************************)
(* One pack creation (specification SpecCreate)                            *)
(***************************************************************************)
InitCreate ==
  /\ \E packs \in { <<>>, <<PackB, PackA>> }, maxItems \in {NumVal(40), NotANumber} :
       settings = StoreSettings(packs, maxItems)
  /\ rankerLoaded = TRUE
  /\ viewText = <<>>
  /\ snapshot = NoSnapshot
  /\ now = 0
  /\ op = <<NoOp, NoOp>>
  /\ pure = [stage |-> 0]
  /\ heap = <<>>
  /\ send = NoSend

\* createContextPackFromSelections(sel.folders, sel.files) while the reads of
\* the files in `failing` fail; pure keeps the arguments, the history before
\* the call, the result and the history saveSettings() wrote (stored)
CreatePack ==
  /\ pure.stage = 0
  /\ \E sel \in Selections, failing \in ReadFailures :
       \E r \in {createContextPackFromSelections(settings, VaultFiles, VaultNotes, failing,
                                                 sel.folders, sel.files, now + 1, 10)} :
         /\ settings' = [settings EXCEPT !.contextPacks = r.packs]
         /\ pure' = [stage |-> 1, sel |-> sel, failing |-> failing,
                     before |-> settings.contextPacks, result |-> r.result,
                     saved |-> r.saved]
  /\ now' = now + 1
  /\ UNCHANGED <<rankerLoaded, viewText, snapshot, op, heap, send>>

NextCreate == CreatePack

SpecCreate == InitCreate /\ [][NextCreate]_vars

(***************************************************************************)
(* Properties of a pack creation (specification SpecCreate)                *)
(***************************************************************************)
\* the files the selection of the call resolves to
SelectedFiles == collectMentionFilePaths(VaultFiles, pure.sel.folders, pure.sel.files)

\* the pack the call stored
NewPack == settings.contextPacks[1]

Stored == pure.stage = 1 /\ pure.saved

\* in every stored pack items.length <= totalFiles and every item has a mention
\* path
PacksWellFormed ==
  \A n \in 1..Len(settings.contextPacks) :
    /\ Len(settings.contextPacks[n].items) <= settings.contextPacks[n].totalFiles
    /\ \A i \in 1..Len(settings.contextPacks[n].items) :
         settings.contextPacks[n].items[i].mentionPath # <<>>

\* C16 (as stated): in every stored pack items.length <= totalFiles, every item
\* has a non-empty mention path, and no two items of a pack have the same
\* mention path (of the files with one mention path only the first is kept).
C16_MentionPathsUnique ==
  /\ PacksWellFormed
  /\ \A n \in 1..Len(settings.contextPacks) :
       \A i, j \in 1..Len(settings.contextPacks[n].items) :
         i # j => settings.contextPacks[n].items[i].mentionPath
                    # settings.contextPacks[n].items[j].mentionPath

\* C16 (amended): in every stored pack items.length <= totalFiles and every
\* item has a non-empty mention path; a created pack has one item for each of
\* the selected files within the item limit, in their order, with the file's
\* path and its normalized mention path: files with the same mention path each
\* keep their item.
C16_OneItemPerFile ==
  /\ PacksWellFormed
  /\ Stored =>
       /\ Len(NewPack.items) = Min(Len(SelectedFiles), ItemLimit(settings.contextPackMaxItems))
       /\ \A i \in 1..Len(NewPack.items) :
            /\ NewPack.items[i].path = SelectedFiles[i]
            /\ NewPack.items[i].mentionPath
                 = StripMdExt(StripLeadingSlashes(Trim(SelectedFiles[i])))

\* a pack created from a folder with n1.md and n1.MD: two items with the
\* mention path f1/n1
C16_Witness ==
  /\ Stored
  /\ Len(NewPack.items) = 3
  /\ NewPack.items[1].mentionPath = <<"f1", "/", "n1">>
  /\ NewPack.items[2].mentionPath = <<"f1", "/", "n1">>
  /\ NewPack.items[1].path # NewPack.items[2].path

\* C17: a creation from a selection that resolves to no file returns
\* { reference: "", packId: "", count: 0 }, leaves the history as it was and
\* does not save the settings.
C17_EmptySelectionStoresNothing ==
  (pure.stage = 1 /\ SelectedFiles = <<>>) =>
    /\ pure.result = [reference |-> "", packId |-> "", count |-> 0, truncated |-> FALSE,
                      total |-> 0]
    /\ settings.contextPacks = pure.before
    /\ ~pure.saved

\* a folder without notes selected while the history holds two packs
C17_Witness ==
  /\ pure.stage = 1
  /\ pure.sel.folders = << <<"f3">> >>
  /\ pure.result.count = 0
  /\ pure.before = <<PackB, PackA>>
  /\ settings.contextPacks = <<PackB, PackA>>

MaxStoreOps == 3   \* operations per behaviour

\* an old pack: the k-th before the packs of the model
OldPack(k) ==
  [id |-> "old-" \o ToString(k), createdAt |-> 0 - k,
   sourceFolders |-> << <<"f1">> >>,
   filePaths |-> << Note("f1", "n2", ".md") >>,
   items |-> << [path |-> Note("f1", "n2", ".md"), mentionPath |-> <<"f1", "/", "n2">>,
                 preview |-> <<"b">>, folderPath |-> <<"f1">>] >>,
   totalFiles |-> 1, topK |-> NumVal(16), lastUsedAt |-> 0]

\* a history one pack short of the cap, most recently created first
LongHistory ==
  <<PackB, PackA>> \o AsSeq([k \in 1..(ContextPackHistoryCap - 3) |-> OldPack(k)])

\* values of Math.floor(Math.random() * 36 ** 4), the random parts of pack ids
RandomParts == {10, 11}

\* the texts expanded: a reference to a pack of the history, and a reference
\* to no pack
StoreTexts == { <<"a", SP, "@p1">>, <<"@p3">>, <<"@P1", SP, "@p3", SP, "@p2">> }

InitStore ==
  /\ \E packs \in { <<>>, LongHistory } :
       /\ settings = StoreSettings(packs, NotANumber)
       /\ pure = [steps |-> 0, stored |-> packs,
                  last |-> [name |-> "none", before |-> packs, packId |-> "",
                            expandedIds |-> <<>>, missingIds |-> <<>>]]
  /\ rankerLoaded = TRUE
  /\ viewText = <<>>
  /\ snapshot = NoSnapshot
  /\ now = 0
  /\ op = <<NoOp, NoOp>>
  /\ heap = <<>>
  /\ send = NoSend

\* createContextPackFromSelections at time t
StoreCreate ==
  /\ pure.steps < MaxStoreOps
  /\ \E sel \in {s \in Selections : s.files = <<>>}, t \in {now, now + 1}, rand \in RandomParts :
       \E r \in {createContextPackFromSelections(settings, VaultFiles, VaultNotes, {},
                                                 sel.folders, sel.files, t, rand)} :
         /\ settings' = [settings EXCEPT !.contextPacks = r.packs]
         /\ pure' = [steps |-> pure.steps + 1,
                     stored |-> IF r.saved THEN r.packs ELSE pure.stored,
                     last |-> [name |-> "create", before |-> settings.contextPacks,
                               packId |-> r.result.packId,
                               expandedIds |-> <<>>, missingIds |-> <<>>]]
         /\ now' = t
  /\ UNCHANGED <<rankerLoaded, viewText, snapshot, op, heap, send>>

\* expandContextPackReferences(text) at time now + 1
StoreExpand ==
  /\ pure.steps < MaxStoreOps
  /\ \E text \in StoreTexts :
       \E r \in {expandContextPackReferences(settings, text, now + 1, rankerLoaded)} :
         /\ settings' = [settings EXCEPT !.contextPacks = r.packs]
         /\ pure' = [steps |-> pure.steps + 1,
                     stored |-> IF r.saved THEN r.packs ELSE pure.stored,
                     last |-> [name |-> "expand", before |-> settings.contextPacks,
                               packId |-> "", expandedIds |-> r.expandedIds,
                               missingIds |-> r.missingIds]]
  /\ now' = now + 1
  /\ UNCHANGED <<rankerLoaded, viewText, snapshot, op, heap, send>>

\* loadSettings(): the plugin is loaded again and reads what was saved
StoreLoad ==
  /\ pure.steps < MaxStoreOps
  /\ settings' = [settings EXCEPT !.contextPacks = loadSettings(pure.stored)]
  /\ pure' = [pure EXCEPT !.steps = @ + 1,
                          !.last = [name |-> "load", before |-> settings.contextPacks,
                                    packId |-> "", expandedIds |-> <<>>,
                                    missingIds |-> <<>>]]
  /\ UNCHANGED <<rankerLoaded, viewText, snapshot, now, op, heap, send>>

NextStore == StoreCreate \/ StoreExpand \/ StoreLoad

SpecStore == InitStore /\ [][NextStore]_vars

\* C15: the history holds at most 40 packs, no two with the same id, each
\* created no earlier than the packs behind it; after a creation it is the new
\* pack followed by the packs it held before without the pack of the new id,
\* cut to 40 packs from the front.
C15_HistoryBoundedNewestFirst ==
  /\ Len(settings.contextPacks) <= ContextPackHistoryCap
  /\ \A i, j \in 1..Len(settings.contextPacks) :
       i < j => /\ settings.contextPacks[i].id # settings.contextPacks[j].id
                /\ settings.contextPacks[i].createdAt >= settings.contextPacks[j].createdAt
  /\ (pure.last.name = "create" /\ pure.last.packId # "") =>
       /\ settings.contextPacks[1].id = pure.last.packId
       /\ settings.contextPacks[1].createdAt = now
       /\ Len(settings.contextPacks)
            = Min(ContextPackHistoryCap,
                  1 + Cardinality({i \in 1..Len(pure.last.before) :
                                     pure.last.before[i].id # pure.last.packId}))
       /\ \A k \in 2..Len(settings.contextPacks) :
            /\ settings.contextPacks[k].id # pure.last.packId
            /\ \E i \in 1..Len(pure.last.before) :
                 /\ pure.last.before[i] = settings.contextPacks[k]
                 /\ Cardinality({l \in 1..(i - 1) :
                                   pure.last.before[l].id # pure.last.packId}) = k - 2

\* a creation into a full history: the oldest pack is gone
C15_Witness ==
  /\ pure.last.name = "create" /\ pure.last.packId # ""
  /\ Len(pure.last.before) = ContextPackHistoryCap
  /\ Len(settings.contextPacks) = ContextPackHistoryCap
  /\ \A k \in 1..Len(settings.contextPacks) :
       settings.contextPacks[k].id # pure.last.before[ContextPackHistoryCap].id

(***************************************************************************)
(* Profiles: evaluateModelCompatibility, sanitizeProfile, upsertProfile,   *)
(* applyProfile, applyDiscoveredModel, syncProfilesToAgentClientAgents     *)
(*                                                                         *)
(* A profile is a record of its id, name, provider, model and capabilities *)
(* with the compatibility sanitizeProfile computed for it; a capability is *)
(* a trimmed string.  The Agent Client configuration is the list of custom *)
(* agents (id, displayName and the model of their arguments) and the       *)
(* defaultAgentId.                                                         *)
(***************************************************************************)
Providers == <<"ollama", "lmstudio", "local">>
ModelNames == {"gpt-oss:20b", "llama3", "nomic-embed-text", "Embed-Large", "llava"}

\* String.prototype.toLowerCase on the strings of the model
ToLower(s) ==
  CASE s = "Tools" -> "tools"
    [] s = "Embed-Large" -> "embed-large"
    [] OTHER -> s
\* lowered.includes("embed")
IncludesEmbed(lowered) == lowered \in {"nomic-embed-text", "embed-large"}
\* the vision pattern of inferModelCapabilities
IsVisionName(lowered) == lowered = "llava"

\* slugify(input) on the model names and providers of the model
slugify(input) ==
  CASE input = "gpt-oss:20b" -> "gpt-oss-20b"
    [] OTHER -> ToLower(input)

providerLabel(provider) ==
  CASE provider = "ollama" -> "Ollama"
    [] provider = "lmstudio" -> "LM Studio"
    [] OTHER -> "Local"
providerAgentDisplayName(provider) == "Local " \o providerLabel(provider)

normalizeCapabilities(capabilities) ==
  AsSeq([k \in 1..Len(capabilities) |-> ToLower(capabilities[k])])

\* evaluateModelCompatibility(provider, modelName, capabilities, options) on
\* the lowered capabilities caps
CompatibilityOf(provider, modelName, caps, allowNonTools) ==
  IF "embedding" \in caps /\ "completion" \notin caps
  THEN [compatible |-> FALSE, reason |-> "embedding-only model (no chat)"]
  ELSE IF provider = "ollama"
  THEN IF "completion" \notin caps
       THEN [compatible |-> FALSE, reason |-> "no completion capability"]
       ELSE IF "tools" \notin caps /\ ~allowNonTools
       THEN [compatible |-> FALSE, reason |-> "no tools capability (required by codex-acp)"]
       ELSE IF "tools" \notin caps
       THEN [compatible |-> TRUE, reason |-> "no tools capability (experimental override)"]
       ELSE [compatible |-> TRUE, reason |-> "ok"]
  ELSE IF provider = "lmstudio"
  THEN IF IncludesEmbed(ToLower(modelName))
       THEN [compatible |-> FALSE, reason |-> "embedding model likely no chat"]
       ELSE [compatible |-> TRUE, reason |-> "assumed compatible (OpenAI endpoint)"]
  ELSE IF "completion" \in caps
  THEN [compatible |-> TRUE, reason |-> "completion available"]
  ELSE [compatible |-> FALSE, reason |-> "unknown capabilities"]

evaluateModelCompatibility(provider, modelName, capabilities, allowNonTools) ==
  TheOne({CompatibilityOf(provider, modelName, caps, allowNonTools) :
           caps \in {SeqSet(normalizeCapabilities(capabilities))}})

inferModelCapabilities(provider, modelName, currentCapabilities) ==
  IF Len(currentCapabilities) > 0 THEN currentCapabilities
  ELSE IF IncludesEmbed(ToLower(modelName)) THEN <<"embedding">>
  ELSE (IF provider \in {"ollama", "lmstudio"} THEN <<"completion">> ELSE <<>>)
       \o (IF IsVisionName(ToLower(modelName)) THEN <<"vision">> ELSE <<>>)

\* sanitizeString(rawProfile.id, fallbackId), sanitizeString(rawProfile.provider, "local")
ProfileIdOf(rawProfile, index) ==
  IF rawProfile.id = "" THEN "profile-" \o ToString(index + 1) ELSE rawProfile.id
ProviderOf(rawProfile) == IF rawProfile.provider = "" THEN "local" ELSE rawProfile.provider

\* sanitizeProfile(rawProfile, index, options); the profiles of the model
\* carry their model name
sanitizeProfile(rawProfile, index, allowNonTools) ==
  TheOne({[id |-> ProfileIdOf(rawProfile, index),
           name |-> IF rawProfile.name = "" THEN ProfileIdOf(rawProfile, index)
                    ELSE rawProfile.name,
           provider |-> ProviderOf(rawProfile), model |-> rawProfile.model,
           capabilities |-> rawProfile.capabilities,
           compatible |-> compat.compatible, compatibilityReason |-> compat.reason] :
          compat \in {evaluateModelCompatibility(ProviderOf(rawProfile), rawProfile.model,
                                                 rawProfile.capabilities, allowNonTools)}})

createProfileFromDiscovered(model) ==
  [id |-> model.provider \o "-" \o slugify(model.model),
   name |-> providerLabel(model.provider) \o ": " \o model.model,
   provider |-> model.provider,
   model |-> model.model,
   capabilities |-> inferModelCapabilities(model.provider, model.model, model.capabilities)]

ProfileIds(profiles) == {profiles[k].id : k \in 1..Len(profiles)}
Suffixed(baseId, n) == baseId \o "-" \o ToString(n)

getUniqueProfileId(profiles, baseId) ==
  IF baseId \notin ProfileIds(profiles) THEN baseId
  ELSE Suffixed(baseId,
         CHOOSE n \in 2..(Len(profiles) + 2) :
           /\ Suffixed(baseId, n) \notin ProfileIds(profiles)
           /\ \A m \in 2..(n - 1) : Suffixed(baseId, m) \in ProfileIds(profiles))

\* the first index of S, and the profile at it
FirstOf(S) == CHOOSE k \in S : \A j \in S : k <= j
FirstWith(profiles, S) == profiles[FirstOf(S)]

\* findIndex((item) => item.provider === profile.provider && item.name === profile.name)
SameProfile(profiles, profile) ==
  {k \in 1..Len(profiles) :
     profiles[k].provider = profile.provider /\ profiles[k].name = profile.name}

\* upsertProfile(profile): the profiles afterwards and the saved profile
upsertProfile(st, profile) ==
  IF SameProfile(st.profiles, profile) # {}
  THEN TheOne({[profiles |-> [st.profiles EXCEPT ![existingIndex] = merged], saved |-> merged] :
                existingIndex \in {FirstOf(SameProfile(st.profiles, profile))},
                merged \in {sanitizeProfile(profile, FirstOf(SameProfile(st.profiles, profile)) - 1,
                                             st.allowNonToolsChatModels)}})
  ELSE TheOne({[profiles |-> Append(st.profiles, unique), saved |-> unique] :
                unique \in {[normalized EXCEPT !.id = getUniqueProfileId(st.profiles, @)] :
                             normalized \in {sanitizeProfile(profile, Len(st.profiles),
                                                             st.allowNonToolsChatModels)}}})

toProviderAgentId(provider) == "local-gate-provider-" \o slugify(provider)
\* String(agent.id).startsWith("local-gate-")
IsLocalGateAgentId(id) ==
  id \in {toProviderAgentId(Providers[k]) : k \in 1..Len(Providers)} \cup {"local-gate-legacy"}

\* the profiles of a provider, and those of them with an id
Scoped(profiles, provider) == {k \in 1..Len(profiles) : profiles[k].provider = provider}
ScopedWithId(profiles, provider, id) ==
  {k \in Scoped(profiles, provider) : id # "" /\ profiles[k].id = id}

\* getPreferredProfileForProvider(provider, compatibleProfiles,
\* preferredProfileId), which is called for a provider that has a profile
getPreferredProfileForProvider(st, provider, compatibleProfiles, preferredProfileId) ==
  FirstWith(compatibleProfiles,
    IF ScopedWithId(compatibleProfiles, provider, preferredProfileId) # {}
      THEN ScopedWithId(compatibleProfiles, provider, preferredProfileId)
    ELSE IF ScopedWithId(compatibleProfiles, provider, st.activeProfileByProvider[provider]) # {}
      THEN ScopedWithId(compatibleProfiles, provider, st.activeProfileByProvider[provider])
    ELSE IF \E k \in Scoped(compatibleProfiles, provider) :
              compatibleProfiles[k].id = st.lastProfileId
      THEN {k \in Scoped(compatibleProfiles, provider) :
              compatibleProfiles[k].id = st.lastProfileId}
    ELSE Scoped(compatibleProfiles, provider))

NoPreferred == [p \in SeqSet(Providers) |-> ""]
AgentOf(provider, model) ==
  [id |-> toProviderAgentId(provider), displayName |-> providerAgentDisplayName(provider),
   model |-> model]
\* readOrCreateAgentClientSettings(path) when there is no file
DefaultAgentClient == [customAgents |-> <<>>, defaultAgentId |-> "codex-acp"]

\* customAgents.filter((agent) => !String(agent.id).startsWith("local-gate-"))
KeptAgents(ac) ==
  Flatten(AsSeq([k \in 1..Len(ac.customAgents) |->
    IF IsLocalGateAgentId(ac.customAgents[k].id) THEN <<>> ELSE <<ac.customAgents[k]>>]))

\* a sync that takes every profile for compatible (variant of
\* CompatibleProfiles)
EveryProfile(st) ==
  AsSeq([k \in 1..Len(st.profiles) |->
    sanitizeProfile(st.profiles[k], k - 1, st.allowNonToolsChatModels)])

\* normalizedProfiles.filter((profile) => profile.compatible)
CompatibleProfiles(st) ==
  Flatten(AsSeq([k \in 1..Len(st.profiles) |->
    TheOne({IF p.compatible THEN <<p>> ELSE <<>> :
             p \in {sanitizeProfile(st.profiles[k], k - 1, st.allowNonToolsChatModels)}})]))

\* providersToGenerate.includes(provider)
Generates(compatibleProfiles, provider) ==
  provider \in {"ollama", "lmstudio"} /\ Scoped(compatibleProfiles, provider) # {}

\* the generated provider agents
GeneratedAgents(st, compatibleProfiles, preferredProfileIdsByProvider) ==
  Flatten(AsSeq([k \in 1..2 |->
    IF Generates(compatibleProfiles, Providers[k])
    THEN <<AgentOf(Providers[k],
                   getPreferredProfileForProvider(st, Providers[k], compatibleProfiles,
                     preferredProfileIdsByProvider[Providers[k]]).model)>>
    ELSE <<>>]))

\* activeProfileByProvider after the map and the deletion of the providers
\* that were not generated
ActiveAfterSync(st, compatibleProfiles, preferredProfileIdsByProvider) ==
  [p \in SeqSet(Providers) |->
    IF Generates(compatibleProfiles, p)
    THEN getPreferredProfileForProvider(st, p, compatibleProfiles,
                                        preferredProfileIdsByProvider[p]).id
    ELSE ""]

AgentIds(agents) == {agents[k].id : k \in 1..Len(agents)}
WithLastId(st, compatibleProfiles) ==
  {k \in 1..Len(compatibleProfiles) : compatibleProfiles[k].id = st.lastProfileId}

\* data.defaultAgentId after the sync
DefaultAgentAfterSync(st, ac, compatibleProfiles, generated, preferredDefaultAgentId) ==
  IF preferredDefaultAgentId # "" /\ preferredDefaultAgentId \in AgentIds(generated)
    THEN preferredDefaultAgentId
  ELSE IF IsLocalGateAgentId(ac.defaultAgentId) /\ ac.defaultAgentId \notin AgentIds(generated)
    THEN "codex-acp"
  ELSE IF ~IsLocalGateAgentId(ac.defaultAgentId) /\ Len(generated) > 0
    THEN IF /\ WithLastId(st, compatibleProfiles) # {}
            /\ toProviderAgentId(FirstWith(compatibleProfiles,
                 WithLastId(st, compatibleProfiles)).provider) \in AgentIds(generated)
         THEN toProviderAgentId(FirstWith(compatibleProfiles,
                WithLastId(st, compatibleProfiles)).provider)
         ELSE generated[1].id
  ELSE ac.defaultAgentId

\* the sync with the compatible profiles cps
SyncCompatible(st, ac, cps, preferredDefaultAgentId, preferredProfileIdsByProvider) ==
  TheOne({[settings |-> [st EXCEPT !.activeProfileByProvider =
                           ActiveAfterSync(st, cps, preferredProfileIdsByProvider)],
           agentClient |->
             [customAgents |-> KeptAgents(ac) \o generated,
              defaultAgentId |-> DefaultAgentAfterSync(st, ac, cps, generated,
                                                       preferredDefaultAgentId)]] :
          generated \in {GeneratedAgents(st, cps, preferredProfileIdsByProvider)}})

\* syncProfilesToAgentClientAgents(silent, preferredDefaultAgentId,
\* preferredProfileIdsByProvider): the settings and the Agent Client
\* configuration afterwards
syncProfilesToAgentClientAgents(st, ac, preferredDefaultAgentId, preferredProfileIdsByProvider) ==
  TheOne({SyncCompatible(st, ac, cps, preferredDefaultAgentId, preferredProfileIdsByProvider) :
           cps \in {CompatibleProfiles(st)}})

\* enforceProviderAgentModel(profile): the Agent Client configuration
\* afterwards
AgentsWithId(ac, id) == {k \in 1..Len(ac.customAgents) : ac.customAgents[k].id = id}
enforceProviderAgentModel(st, ac, profile) ==
  TheOne({IF AgentsWithId(ac, toProviderAgentId(normalized.provider)) = {} THEN ac
          ELSE [ac EXCEPT
                  !.customAgents[FirstOf(AgentsWithId(ac, toProviderAgentId(normalized.provider)))] =
                    AgentOf(normalized.provider, normalized.model)] :
          normalized \in {sanitizeProfile(profile, 0, st.allowNonToolsChatModels)}})

Applied(st, ac, stored, notice) ==
  [settings |-> st, agentClient |-> ac, stored |-> stored, notice |-> notice]

\* lastProfileId and activeProfileByProvider after upsertProfile returned up
SetActive(st, up) ==
  [st EXCEPT !.profiles = up.profiles, !.lastProfileId = up.saved.id,
             !.activeProfileByProvider[up.saved.provider] = up.saved.id]

\* applyProfile after the settings were saved
PublishApplied(st1, ac, saved) ==
  IF st1.publishProfilesToAgentClient
  THEN TheOne({Applied(synced.settings,
                       enforceProviderAgentModel(synced.settings, synced.agentClient, saved),
                       synced.settings, "applied") :
                synced \in {syncProfilesToAgentClientAgents(st1, ac,
                              toProviderAgentId(saved.provider),
                              [NoPreferred EXCEPT ![saved.provider] = saved.id])}})
  ELSE Applied(st1, ac, st1, "enable publish")

\* an apply that does not look at the compatibility (variant of GateProfile)
GateNothing(normalized) == TRUE

\* if (!normalized.compatible) of applyProfile
GateProfile(normalized) == normalized.compatible

\* applyProfile on the sanitized profile
ApplyNormalized(st, ac, stored, normalized) ==
  IF ~GateProfile(normalized) THEN Applied(st, ac, stored, "blocked")
  ELSE TheOne({PublishApplied(SetActive(st, up), ac, up.saved) :
                up \in {upsertProfile(st, normalized)}})

\* applyProfile(profile): the settings, the Agent Client configuration, the
\* settings that were saved, and the notice
applyProfile(st, ac, stored, profile) ==
  TheOne({ApplyNormalized(st, ac, stored, normalized) :
           normalized \in {sanitizeProfile(profile, 0, st.allowNonToolsChatModels)}})

applyDiscoveredModel(st, ac, stored, model) ==
  applyProfile(st, ac, stored, createProfileFromDiscovered(model))

\* addDiscoveredModelAsProfile after the settings were saved
PublishSaved(st1, ac) ==
  IF st1.publishProfilesToAgentClient
  THEN TheOne({Applied(synced.settings, synced.agentClient, synced.settings, "profile saved") :
                synced \in {syncProfilesToAgentClientAgents(st1, ac, "", NoPreferred)}})
  ELSE Applied(st1, ac, st1, "profile saved")

\* addDiscoveredModelAsProfile(model)
addDiscoveredModelAsProfile(st, ac, stored, model) ==
  TheOne({PublishSaved(SetActive(st, up), ac) :
           up \in {upsertProfile(st, createProfileFromDiscovered(model))}})

\* recomputeCompatibilityFlags() on the profiles
recomputeCompatibilityFlags(st) ==
  [st EXCEPT !.profiles =
     Flatten(AsSeq([k \in 1..Len(st.profiles) |->
       IF st.profiles[k].id \in {"lmstudio-default", "lmstudio-local-model"} THEN <<>>
       ELSE <<sanitizeProfile(st.profiles[k], k - 1, st.allowNonToolsChatModels)>>]))]

(***************************************************************************)
(* Applying profiles and discovered models (specification SpecApply)       *)
(***************************************************************************)
MaxApplyOps == 2

Discovered(provider, model, capabilities) ==
  [provider |-> provider, model |-> model, capabilities |-> capabilities]

\* what a scan found, and entries without capabilities
DiscoveredModels ==
  { Discovered("ollama", "gpt-oss:20b", <<"completion", "tools", "thinking">>),
    Discovered("ollama", "llama3", <<"completion">>),
    Discovered("ollama", "llama3", <<"completion", "Tools">>),
    Discovered("ollama", "nomic-embed-text", <<"embedding">>),
    Discovered("ollama", "llava", <<>>),
    Discovered("lmstudio", "llama3", <<"completion">>),
    Discovered("lmstudio", "Embed-Large", <<"completion">>),
    Discovered("local", "llama3", <<>>),
    Discovered("local", "llama3", <<"completion">>) }

\* the first default profile, and a profile whose capabilities are unknown
DefaultProfile ==
  [id |-> "ollama-gpt-oss-20b", name |-> "Ollama: gpt-oss:20b", provider |-> "ollama",
   model |-> "gpt-oss:20b", capabilities |-> <<"completion", "tools", "thinking">>]
UnnamedProfile ==
  [id |-> "", name |-> "", provider |-> "", model |-> "llama3", capabilities |-> <<>>]

ProfileSettings(rawProfiles, allowNonTools, publish) ==
  [profiles |-> AsSeq([k \in 1..Len(rawProfiles) |->
                         sanitizeProfile(rawProfiles[k], k - 1, allowNonTools)]),
   lastProfileId |-> IF Len(rawProfiles) > 0 THEN rawProfiles[1].id ELSE "",
   activeProfileByProvider |-> NoPreferred,
   allowNonToolsChatModels |-> allowNonTools,
   publishProfilesToAgentClient |-> publish]

AgentClients ==
  { DefaultAgentClient,
    [customAgents |-> << [id |-> "claude-code-acp", displayName |-> "Claude Code", model |-> ""],
                         AgentOf("ollama", "gpt-oss:20b"),
                         [id |-> "local-gate-legacy", displayName |-> "Local", model |-> "llama3"] >>,
     defaultAgentId |-> "local-gate-legacy"] }

NoApply == [name |-> "none", settings |-> <<>>, agentClient |-> <<>>, stored |-> <<>>,
            profile |-> <<>>, notice |-> ""]

InitApply ==
  /\ \E allowNonTools \in BOOLEAN, publish \in BOOLEAN :
       settings = ProfileSettings(<<DefaultProfile>>, allowNonTools, publish)
  /\ \E ac \in AgentClients :
       pure = [steps |-> 0, agentClient |-> ac, stored |-> settings, last |-> NoApply]
  /\ rankerLoaded = TRUE
  /\ viewText = <<>>
  /\ snapshot = NoSnapshot
  /\ heap = <<>>
  /\ now = 0
  /\ op = <<NoOp, NoOp>>
  /\ send = NoSend

\* the state after a handler that returned r, and what it was called on
AfterApply(name, profile, r) ==
  /\ settings' = r.settings
  /\ pure' = [steps |-> pure.steps + 1, agentClient |-> r.agentClient, stored |-> r.stored,
              last |-> [name |-> name, settings |-> settings,
                        agentClient |-> pure.agentClient, stored |-> pure.stored,
                        profile |-> profile, notice |-> r.notice]]
  /\ UNCHANGED <<rankerLoaded, viewText, snapshot, heap, now, op, send>>

\* Apply on a saved profile, or applyProfile with any other profile
ApplySaved ==
  /\ pure.steps < MaxApplyOps
  /\ \E profile \in SeqSet(settings.profiles) \cup {UnnamedProfile} :
       AfterApply("applyProfile", profile,
                  applyProfile(settings, pure.agentClient, pure.stored, profile))

\* Apply on a discovered model
ApplyDiscovered ==
  /\ pure.steps < MaxApplyOps
  /\ \E model \in DiscoveredModels :
       AfterApply("applyDiscoveredModel", createProfileFromDiscovered(model),
                  applyDiscoveredModel(settings, pure.agentClient, pure.stored, model))

\* Save as profile on a discovered model
AddDiscovered ==
  /\ pure.steps < MaxApplyOps
  /\ \E model \in DiscoveredModels :
       AfterApply("addDiscoveredModelAsProfile", createProfileFromDiscovered(model),
                  addDiscoveredModelAsProfile(settings, pure.agentClient, pure.stored, model))

\* the toggle of allowNonToolsChatModels
ToggleAllowNonTools ==
  /\ pure.steps < MaxApplyOps
  /\ \E st \in {recomputeCompatibilityFlags(
                  [settings EXCEPT !.allowNonToolsChatModels = ~@])} :
       AfterApply("allowNonToolsChatModels", <<>>,
                  Applied(st, pure.agentClient, st, ""))

NextApply == ApplySaved \/ ApplyDiscovered \/ AddDiscovered \/ ToggleAllowNonTools

SpecApply == InitApply /\ [][NextApply]_vars

(***************************************************************************)
(* Properties of Apply (specification SpecApply)                           *)
(***************************************************************************)
ApplyCalled == pure.last.name \in {"applyProfile", "applyDiscoveredModel"}
\* the compatibility check on the profile Apply was called with
BlockedApply ==
  /\ ApplyCalled
  /\ ~sanitizeProfile(pure.last.profile, 0,
                      pure.last.settings.allowNonToolsChatModels).compatible

\* C20: applyProfile and applyDiscoveredModel on a profile whose
\* compatibility check fails leave the saved profiles, lastProfileId,
\* activeProfileByProvider, the saved settings and the Agent Client
\* configuration as they were, and give the "blocked" notice.
C20_BlockedApplyChangesNothing ==
  BlockedApply =>
    /\ settings.profiles = pure.last.settings.profiles
    /\ settings.lastProfileId = pure.last.settings.lastProfileId
    /\ settings.activeProfileByProvider = pure.last.settings.activeProfileByProvider
    /\ settings = pure.last.settings
    /\ pure.stored = pure.last.stored
    /\ pure.agentClient = pure.last.agentClient
    /\ pure.last.notice = "blocked"

\* Apply was called on the discovered Ollama model without the tools
\* capability, with publishing on and the override off
C20_Witness ==
  /\ BlockedApply
  /\ pure.last.name = "applyDiscoveredModel"
  /\ pure.last.profile.provider = "ollama" /\ pure.last.profile.model = "llama3"
  /\ pure.last.profile.capabilities = <<"completion">>
  /\ settings.publishProfilesToAgentClient /\ ~settings.allowNonToolsChatModels
  /\ pure.agentClient.defaultAgentId = "local-gate-legacy"

\* Apply of a compatible profile changed the Agent Client configuration
C20_AppliedWitness ==
  /\ ApplyCalled /\ ~BlockedApply
  /\ pure.last.notice = "applied"
  /\ pure.agentClient # pure.last.agentClient
  /\ pure.agentClient.defaultAgentId = toProviderAgentId(pure.last.profile.provider)

\* the last handler ran syncProfilesToAgentClientAgents
Synced ==
  /\ pure.last.name \in {"applyProfile", "applyDiscoveredModel", "addDiscoveredModelAsProfile"}
  /\ pure.last.notice \in {"applied", "profile saved"}
  /\ settings.publishProfilesToAgentClient
\* profile k of the settings passes the compatibility check
IsCompatible(k) ==
  sanitizeProfile(settings.profiles[k], k - 1, settings.allowNonToolsChatModels).compatible
LocalGateAgents ==
  {k \in 1..Len(pure.agentClient.customAgents) :
     IsLocalGateAgentId(pure.agentClient.customAgents[k].id)}

\* C21: after syncProfilesToAgentClientAgents, every local-gate agent of the
\* Agent Client configuration is the agent of a provider and carries the
\* model of a compatible profile of that provider, a provider without a
\* compatible profile has no agent, and every activeProfileByProvider entry
\* is the id of a compatible profile of its provider.
C21_BlockedProfilesNotSynced ==
  Synced =>
    /\ \A a \in LocalGateAgents :
         \E k \in 1..Len(settings.profiles) :
           /\ IsCompatible(k)
           /\ pure.agentClient.customAgents[a].id =
                toProviderAgentId(settings.profiles[k].provider)
           /\ pure.agentClient.customAgents[a].model = settings.profiles[k].model
    /\ \A p \in SeqSet(Providers) :
         (\A k \in 1..Len(settings.profiles) :
            settings.profiles[k].provider = p => ~IsCompatible(k))
           => \A a \in LocalGateAgents :
                pure.agentClient.customAgents[a].id # toProviderAgentId(p)
    /\ \A p \in SeqSet(Providers) :
         settings.activeProfileByProvider[p] # "" =>
           \E k \in 1..Len(settings.profiles) :
             /\ IsCompatible(k)
             /\ settings.profiles[k].provider = p
             /\ settings.profiles[k].id = settings.activeProfileByProvider[p]

\* the LM Studio embedding model was saved as a profile and synced: it is
\* blocked, LM Studio has no agent and no active profile, Ollama has its agent
C21_Witness ==
  /\ Synced
  /\ pure.last.name = "addDiscoveredModelAsProfile"
  /\ pure.last.profile.provider = "lmstudio"
  /\ \E k \in 1..Len(settings.profiles) :
       settings.profiles[k].provider = "lmstudio" /\ ~IsCompatible(k)
  /\ settings.activeProfileByProvider["lmstudio"] = ""
  /\ \E a \in LocalGateAgents :
       pure.agentClient.customAgents[a].id = toProviderAgentId("ollama")
  /\ pure.last.settings.lastProfileId # settings.lastProfileId


\* the ids of a list of ids, as a set
IdSet(ids) == {ids[j] : j \in 1..Len(ids)}

\* C22: an expansion leaves the history with the same packs at the same
\* places; a pack it expanded differs from before only in lastUsedAt, which
\* is the time of the expansion, every other pack is as it was, and an id it
\* did not find names no pack afterwards.
C22_ExpansionOnlyTouchesLastUsedAt ==
  pure.last.name = "expand" =>
    /\ Len(settings.contextPacks) = Len(pure.last.before)
    /\ \A k \in 1..Len(pure.last.before) :
         settings.contextPacks[k]
           = IF pure.last.before[k].id \in IdSet(pure.last.expandedIds)
             THEN [pure.last.before[k] EXCEPT !.lastUsedAt = now]
             ELSE pure.last.before[k]
    /\ \A k \in 1..Len(settings.contextPacks) :
         settings.contextPacks[k].id \notin IdSet(pure.last.missingIds)
    /\ pure.last.expandedIds # <<>> => pure.stored = settings.contextPacks

\* an expansion of two packs of a long history, behind other packs or not,
\* with a reference to no pack in the same text
C22_Witness ==
  /\ pure.last.name = "expand"
  /\ pure.last.expandedIds = <<"p1", "p2">>
  /\ pure.last.missingIds = <<"p3">>
  /\ Len(settings.contextPacks) > 2
  /\ \E k \in 1..Len(settings.contextPacks) :
       /\ k > 1
       /\ settings.contextPacks[k].id = "p1"
       /\ settings.contextPacks[k].lastUsedAt = now
       /\ pure.last.before[k].lastUsedAt # now
  /\ \E k \in 1..Len(settings.contextPacks) :
       /\ settings.contextPacks[k].id \notin {"p1", "p2"}
       /\ settings.contextPacks[k] = pure.last.before[k]


\* C23 (as stated): in inline mode the text one expansion call returns holds
\* the guidance line at most once, whatever reference tokens its input holds.
C23_GuidanceAtMostOnce ==
  (pure.stage >= 1 /\ settings.contextPackInjectInline) =>
    Occurrences(pure.first.text, INLINE_CONTEXT_ONLY_GUIDANCE) <= 1

\* the part of C23 that holds: in inline mode a text in which no id is
\* referenced twice comes back with the guidance line at most once
C23_GuidanceOncePerDistinctIds ==
  (/\ pure.stage >= 1
   /\ settings.contextPackInjectInline
   /\ \A id \in IdsIn(pure.text) : TokenCount(pure.text, id) = 1) =>
    Occurrences(pure.first.text, INLINE_CONTEXT_ONLY_GUIDANCE) <= 1

\* two packs expanded by one call, the guidance line once
C23_DistinctIdsWitness ==
  /\ pure.stage >= 1
  /\ settings.contextPackInjectInline
  /\ pure.first.expandedIds = <<"p1", "p2">>
  /\ Occurrences(pure.first.text, INLINE_CONTEXT_ONLY_GUIDANCE) = 1


\* the snapshot an operation that turned the text `pre` into the text the
\* view holds now leaves behind
SnapshotOf(pre) ==
  [has |-> TRUE, before |-> sanitizeString(pre), after |-> viewText, ts |-> now]

\* the last operation was an expansion that changed the text: the command,
\* or the expansion of a send
LastExpanded == op[2].name \in {"expand", "send"} /\ op[2].ret

C24_RestoreWitness ==
  /\ op[2].name = "reset"
  /\ op[2].ret
  /\ op[2].snapPre.has
  /\ viewText = op[2].snapPre.before
  /\ viewText # stripContextPackArtifactsFromInput(op[2].pre)

\* a reset that found a snapshot of another text and stripped the text
C24_StaleWitness ==
  /\ op[2].name = "reset"
  /\ op[2].ret
  /\ op[2].snapPre.has
  /\ op[2].snapPre.after # getViewInputText(op[2].pre)
  /\ snapshot = NoSnapshot


\* the wire-protocol and model fields the send guard writes
WireModelKeys == {"wire_api", "wireApi", "apiMode", "api_mode", "model", "selectedModel"}

\* the plain objects of the payload as the wrapped method received it that
\* the guard visits
Visited == collectMutableSendObjects(send.before, send.args)

\* the wire-protocol and model fields of object a are as they were passed
SameWireModel(a) == \A key \in WireModelKeys : heap[a].f[key] = send.before[a].f[key]

\* C25 (as stated): after the send guard a visited object that came with
\* none of the request-indicating keys has the wire-protocol and model
\* fields it came with.
C25_OnlyRequestShapedTouched ==
  send.called =>
    \A k \in 1..Len(Visited) :
      ~hasRequestShape(send.before, Visited[k]) => SameWireModel(Visited[k])

\* the part of C25 that holds: when the guard does not suppress tools, only
\* objects with a request-indicating key get wire-protocol or model fields,
\* and on those wire_api and wireApi are the resolved wire protocol, apiMode
\* and api_mode are it where they held a string, and model and
\* selectedModel are the resolved model where they held a string
C25_TouchedWithoutToolSuppression ==
  (send.called /\ ~send.toolless /\ ~Threw(heap)) =>
    \A k \in 1..Len(Visited) :
      IF ~hasRequestShape(send.before, Visited[k]) THEN SameWireModel(Visited[k])
      ELSE /\ send.runtimeContext.wireApi # "" =>
                \A key \in WireModelKeys \ {"model", "selectedModel"} :
                  heap[Visited[k]].f[key]
                    = IF key \in {"wire_api", "wireApi"}
                           \/ send.before[Visited[k]].f[key] \in StringVals
                      THEN send.runtimeContext.wireApi
                      ELSE send.before[Visited[k]].f[key]
           /\ \A key \in {"model", "selectedModel"} :
                heap[Visited[k]].f[key]
                  = IF send.runtimeContext.model # ""
                         /\ send.before[Visited[k]].f[key] \in StringVals
                    THEN send.runtimeContext.model
                    ELSE send.before[Visited[k]].f[key]

\* a send without tool suppression: the request got the wire protocol and
\* the model, the object in its messages kept its own
C25_UntouchedWitness ==
  /\ send.called
  /\ ~send.toolless
  /\ send.before = ModePayload
  /\ heap[1].f["api_mode"] = "chat_completions"
  /\ heap[1].f["model"] = "m1"
  /\ heap[3].f["apiMode"] = "hello"
  /\ heap[3].f["wire_api"] = "absent"


(***************************************************************************)
(* Model sync: syncSelectedModelFromView and scheduleActiveModelSync       *)
(***************************************************************************)
MaxSyncCalls == 3   \* calls of syncSelectedModelFromView per behaviour

\* what resolveProviderForView and getCurrentModelFromView return for the view
ViewProviders == {"", "ollama", "lmstudio"}
ViewModels == {"", "gpt-oss:20b", "llama3", "llama3 (high)", "nomic-embed-text"}

\* normalizeModelOptionKey(rawModel): the effort suffix " (low|medium|high|
\* xhigh)" is cut off
normalizeModelOptionKey(rawModel) ==
  CASE rawModel = "llama3 (high)" -> "llama3"
    [] OTHER -> rawModel

\* this.settings.discoveredModels
SyncDiscovered ==
  << Discovered("ollama", "llama3", <<"completion">>),
     Discovered("lmstudio", "nomic-embed-text", <<"embedding">>) >>

\* the profile findProfileForProviderModel builds when neither a profile nor
\* a discovered model has the provider and the model
AdhocProfile(provider, model) ==
  [id |-> provider \o "-" \o slugify(model) \o "-adhoc",
   name |-> providerLabel(provider) \o ": " \o model,
   provider |-> provider, model |-> model,
   capabilities |-> inferModelCapabilities(provider, model, <<>>)]

ExactProfiles(st, provider, model) ==
  {k \in 1..Len(st.profiles) :
     /\ sanitizeProfile(st.profiles[k], k - 1, st.allowNonToolsChatModels).provider = provider
     /\ sanitizeProfile(st.profiles[k], k - 1, st.allowNonToolsChatModels).model = model}
DiscoveredWith(discoveredModels, provider, model) ==
  {k \in 1..Len(discoveredModels) :
     discoveredModels[k].provider = provider /\ discoveredModels[k].model = model}

\* findProfileForProviderModel(provider, model), both not empty
findProfileForProviderModel(st, discoveredModels, provider, model) ==
  IF ExactProfiles(st, provider, model) # {}
  THEN sanitizeProfile(st.profiles[FirstOf(ExactProfiles(st, provider, model))],
                       FirstOf(ExactProfiles(st, provider, model)) - 1,
                       st.allowNonToolsChatModels)
  ELSE IF DiscoveredWith(discoveredModels, provider, model) # {}
  THEN sanitizeProfile(
         createProfileFromDiscovered(
           discoveredModels[FirstOf(DiscoveredWith(discoveredModels, provider, model))]),
         0, st.allowNonToolsChatModels)
  ELSE sanitizeProfile(AdhocProfile(provider, model), 0, st.allowNonToolsChatModels)

NotStarted == [started |-> FALSE, provider |-> "", model |-> "", profile |-> <<>>]

\* syncSelectedModelFromView after the in-flight check, up to the try block
SyncPrefix(st, sync, provider, rawModel) ==
  IF provider \notin {"ollama", "lmstudio"} THEN NotStarted
  ELSE IF normalizeModelOptionKey(rawModel) = "" THEN NotStarted
  ELSE IF sync.syncState[provider] = normalizeModelOptionKey(rawModel) THEN NotStarted
  ELSE TheOne({IF ~profile.compatible THEN NotStarted
               ELSE [started |-> TRUE, provider |-> provider,
                     model |-> normalizeModelOptionKey(rawModel), profile |-> profile] :
               profile \in {findProfileForProviderModel(st, sync.discoveredModels, provider,
                                                        normalizeModelOptionKey(rawModel))}})

\* variant: a sync that does not look at the in-flight flag
syncWithoutInFlightCheck(st, sync, provider, rawModel) ==
  SyncPrefix(st, sync, provider, rawModel)

\* syncSelectedModelFromView(view, silent) up to its first await: whether it
\* goes on to the try block, and with which profile
syncSelectedModelFromView(st, sync, provider, rawModel) ==
  IF sync.inFlight THEN NotStarted ELSE SyncPrefix(st, sync, provider, rawModel)

IdleCall == [pc |-> "idle", provider |-> "", model |-> "", profile |-> <<>>, ret |-> FALSE]
NoSyncCall ==
  [name |-> "none", call |-> 0, busy |-> FALSE, settings |-> <<>>, agentClient |-> <<>>,
   syncState |-> <<>>, stored |-> <<>>]

\* agent configurations: with an agent per provider, and with none
SyncAgentClients ==
  { DefaultAgentClient,
    [customAgents |-> << AgentOf("ollama", "gpt-oss:20b"), AgentOf("lmstudio", "llava") >>,
     defaultAgentId |-> "local-gate-ollama"] }

InitSync ==
  /\ \E allowNonTools \in BOOLEAN :
       settings = ProfileSettings(<<DefaultProfile>>, allowNonTools, TRUE)
  /\ \E ac \in SyncAgentClients :
       pure = [inFlight |-> FALSE,
               syncState |-> [p \in {"ollama", "lmstudio"} |-> ""],
               discoveredModels |-> SyncDiscovered,
               timer |-> FALSE,
               calls |-> AsSeq([c \in 1..MaxSyncCalls |-> IdleCall]),
               agentClient |-> ac, stored |-> settings, last |-> NoSyncCall]
  /\ rankerLoaded = TRUE
  /\ viewText = <<>>
  /\ snapshot = NoSnapshot
  /\ heap = <<>>
  /\ now = 0
  /\ op = <<NoOp, NoOp>>
  /\ send = NoSend

\* the calls that are between the try and the finally
Pending == {c \in 1..MaxSyncCalls : pure.calls[c].pc \in {"enforce", "save"}}

\* the next call of syncSelectedModelFromView, on a view with some provider
\* and model, runs up to its first await or returns false
StartCall(c) ==
  /\ pure.calls[c].pc = "idle"
  /\ \A d \in 1..(c - 1) : pure.calls[d].pc # "idle"
  /\ \E provider \in ViewProviders, rawModel \in ViewModels :
       \E r \in {syncSelectedModelFromView(settings, pure, provider, rawModel)} :
         pure' = [pure EXCEPT
                    !.inFlight = IF r.started THEN TRUE ELSE @,
                    !.calls[c] = IF r.started
                                 THEN [pc |-> "enforce", provider |-> r.provider,
                                       model |-> r.model, profile |-> r.profile,
                                       ret |-> FALSE]
                                 ELSE [IdleCall EXCEPT !.pc = "done"],
                    !.last = [name |-> "call", call |-> c, busy |-> pure.inFlight,
                              settings |-> settings, agentClient |-> pure.agentClient,
                              syncState |-> pure.syncState, stored |-> pure.stored]]
  /\ UNCHANGED <<settings, rankerLoaded, viewText, snapshot, heap, now, op, send>>

\* a send, or a click on a send control: syncSelectedModelFromView is called
\* at once
SyncCall == \E c \in 1..MaxSyncCalls : StartCall(c)

\* scheduleActiveModelSync(delayMs): a timer that is pending is cleared and a
\* new one is set
ScheduleSync ==
  /\ \E c \in 1..MaxSyncCalls : pure.calls[c].pc = "idle"
  /\ pure' = [pure EXCEPT !.timer = TRUE, !.last = [NoSyncCall EXCEPT !.name = "schedule"]]
  /\ UNCHANGED <<settings, rankerLoaded, viewText, snapshot, heap, now, op, send>>

\* the timer fires: syncSelectedModelFromActiveView(true)
TimerFires ==
  /\ pure.timer
  /\ \E c \in 1..MaxSyncCalls :
       /\ pure.calls[c].pc = "idle"
       /\ \A d \in 1..(c - 1) : pure.calls[d].pc # "idle"
       /\ \E provider \in ViewProviders, rawModel \in ViewModels :
            \E r \in {syncSelectedModelFromView(settings, pure, provider, rawModel)} :
              pure' = [pure EXCEPT
                         !.timer = FALSE,
                         !.inFlight = IF r.started THEN TRUE ELSE @,
                         !.calls[c] = IF r.started
                                      THEN [pc |-> "enforce", provider |-> r.provider,
                                            model |-> r.model, profile |-> r.profile,
                                            ret |-> FALSE]
                                      ELSE [IdleCall EXCEPT !.pc = "done"],
                         !.last = [name |-> "call", call |-> c, busy |-> pure.inFlight,
                                   settings |-> settings, agentClient |-> pure.agentClient,
                                   syncState |-> pure.syncState, stored |-> pure.stored]]
  /\ UNCHANGED <<settings, rankerLoaded, viewText, snapshot, heap, now, op, send>>

\* await this.enforceProviderAgentModel(profile) resolves; the active
\* profile of the provider is set and saveSettings() is awaited
EnforceResolves(c) ==
  /\ pure.calls[c].pc = "enforce"
  /\ settings' = [settings EXCEPT
                    !.activeProfileByProvider[pure.calls[c].provider] = pure.calls[c].profile.id]
  /\ pure' = [pure EXCEPT
                !.agentClient = enforceProviderAgentModel(settings, @, pure.calls[c].profile),
                !.calls[c].pc = "save",
                !.last = [NoSyncCall EXCEPT !.name = "enforced", !.call = c]]
  /\ UNCHANGED <<rankerLoaded, viewText, snapshot, heap, now, op, send>>

\* await this.enforceProviderAgentModel(profile) rejects: catch, finally
EnforceRejects(c) ==
  /\ pure.calls[c].pc = "enforce"
  /\ pure' = [pure EXCEPT !.inFlight = FALSE, !.calls[c].pc = "done",
                          !.last = [NoSyncCall EXCEPT !.name = "failed", !.call = c]]
  /\ UNCHANGED <<settings, rankerLoaded, viewText, snapshot, heap, now, op, send>>

\* await this.saveSettings() resolves: the cache is set, true is returned,
\* finally
SaveResolves(c) ==
  /\ pure.calls[c].pc = "save"
  /\ pure' = [pure EXCEPT !.inFlight = FALSE, !.stored = settings,
                          !.syncState[pure.calls[c].provider] = pure.calls[c].model,
                          !.calls[c].pc = "done", !.calls[c].ret = TRUE,
                          !.last = [NoSyncCall EXCEPT !.name = "synced", !.call = c]]
  /\ UNCHANGED <<settings, rankerLoaded, viewText, snapshot, heap, now, op, send>>

\* await this.saveSettings() rejects: catch, finally
SaveRejects(c) ==
  /\ pure.calls[c].pc = "save"
  /\ pure' = [pure EXCEPT !.inFlight = FALSE, !.calls[c].pc = "done",
                          !.last = [NoSyncCall EXCEPT !.name = "failed", !.call = c]]
  /\ UNCHANGED <<settings, rankerLoaded, viewText, snapshot, heap, now, op, send>>

\* a promise the running sync awaits settles
Settles ==
  \E c \in 1..MaxSyncCalls :
    EnforceResolves(c) \/ EnforceRejects(c) \/ SaveResolves(c) \/ SaveRejects(c)

NextSync == SyncCall \/ ScheduleSync \/ TimerFires \/ Settles

\* the promises of the vault's file operations settle
SpecSync == InitSync /\ [][NextSync]_vars /\ WF_vars(Settles)

\* C26: at most one call of syncSelectedModelFromView is between its try and
\* its finally, and the in-flight flag is set exactly then; a call made while
\* the flag is set returns false and leaves the agent configuration, the
\* settings, the saved settings and the last-synced-model cache as they
\* were; and a flag that is set is cleared again.
C26_OneSyncInFlight ==
  /\ [](/\ Cardinality(Pending) <= 1
        /\ pure.inFlight <=> Pending # {}
        /\ (pure.last.name = "call" /\ pure.last.busy) =>
             /\ pure.calls[pure.last.call].pc = "done"
             /\ ~pure.calls[pure.last.call].ret
             /\ settings = pure.last.settings
             /\ pure.agentClient = pure.last.agentClient
             /\ pure.syncState = pure.last.syncState
             /\ pure.stored = pure.last.stored)
  /\ (pure.inFlight ~> ~pure.inFlight)

\* a call returned false while another call was awaiting saveSettings()
C26_Witness ==
  /\ pure.last.name = "call"
  /\ pure.last.busy
  /\ \E c \in Pending : pure.calls[c].pc = "save" /\ c # pure.last.call

\* a later call went through after a sync that failed and one that was
\* turned away
C26_LaterSyncWitness ==
  /\ pure.calls[1].pc = "done" /\ ~pure.calls[1].ret
  /\ pure.calls[2].pc = "done" /\ ~pure.calls[2].ret
  /\ pure.calls[3].pc = "done" /\ pure.calls[3].ret
  /\ ~pure.inFlight
  /\ pure.syncState["lmstudio"] = "llama3"


(***************************************************************************)
(* Overlapping pack creations (specification SpecOverlap).  A call of       *)
(* createContextPackFromSelections is suspended while its previews are     *)
(* read and while saveSettings() writes; expandContextPackReferences has   *)
(* no await.                                                               *)
(***************************************************************************)
MaxCreateCalls == 2      \* calls of createContextPackFromSelections per behaviour
MaxOverlapExpands == 1   \* expansions per behaviour

\* the selections of the overlapping calls, one file each: the calls take
\* them in turn
OverlapSelections ==
  << [folders |-> <<>>, files |-> << <<"/", "f2", "/", "n3", ".md">> >>],
     [folders |-> <<>>, files |-> << <<"f1", "/", "n2", ".md">> >>] >>

\* the text expanded between the steps of the calls
OverlapTexts == { <<"@P1", SP, "@p3", SP, "@p2">> }

IdleCreate ==
  [pc |-> "idle", folders |-> <<>>, files |-> <<>>, before |-> <<>>, packId |-> "",
   pack |-> <<>>]

\* variant: the history the call saw when it began, before its reads
HistoryAtCall(current, atCall) == atCall

\* this.settings.contextPacks as the store step reads it, after the reads
HistoryAtStore(current, atCall) == current

InitOverlap ==
  /\ \E packs \in { LongHistory } :
       /\ settings = StoreSettings(packs, NotANumber)
       /\ pure = [calls |-> AsSeq([c \in 1..MaxCreateCalls |-> IdleCreate]),
                  initial |-> packs, log |-> <<>>, expands |-> 0]
  /\ rankerLoaded = TRUE
  /\ viewText = <<>>
  /\ snapshot = NoSnapshot
  /\ now = 0
  /\ op = <<NoOp, NoOp>>
  /\ heap = <<>>
  /\ send = NoSend

\* createContextPackFromSelections(folderPaths, filePaths) up to its await:
\* the files are collected and their reads begin
CreateBegins(c) ==
  /\ pure.calls[c].pc = "idle"
  /\ \A d \in 1..(c - 1) : pure.calls[d].pc # "idle"
  /\ \E sel \in {OverlapSelections[((c - 1) % Len(OverlapSelections)) + 1]} :
       pure' = [pure EXCEPT
                  !.calls[c] = [IdleCreate EXCEPT
                                  !.pc = "reading", !.folders = sel.folders,
                                  !.files = collectMentionFilePaths(VaultFiles, sel.folders,
                                                                    sel.files),
                                  !.before = settings.contextPacks]]
  /\ UNCHANGED <<settings, rankerLoaded, viewText, snapshot, now, op, heap, send>>

\* the reads of call c are done: the pack is built and stored in the
\* history, and saveSettings() begins; the calls draw the same random part,
\* in the same millisecond or not
CreateStores(c) ==
  /\ pure.calls[c].pc = "reading"
  /\ \E t \in {now, now + 1}, rand \in {10} :
       \E r \in {CreateFromItems(
                   [settings EXCEPT
                      !.contextPacks = HistoryAtStore(@, pure.calls[c].before)],
                   pure.calls[c].files,
                   PackItems(SubSeq(pure.calls[c].files, 1,
                                    Min(Len(pure.calls[c].files),
                                        ItemLimit(settings.contextPackMaxItems))),
                             VaultNotes, {}),
                   pure.calls[c].folders, t, rand)} :
         /\ settings' = [settings EXCEPT !.contextPacks = r.packs]
         /\ pure' = [pure EXCEPT
                       !.calls[c].pc = IF r.saved THEN "saving" ELSE "done",
                       !.calls[c].packId = r.result.packId,
                       !.calls[c].pack = IF r.saved THEN r.packs[1] ELSE <<>>,
                       !.log = IF r.saved
                               THEN Append(@, [kind |-> "create", pack |-> r.packs[1],
                                               ids |-> <<>>, t |-> t])
                               ELSE @]
         /\ now' = t
  /\ UNCHANGED <<rankerLoaded, viewText, snapshot, op, heap, send>>

\* saveSettings() of call c has written and the call returns: the settings
\* in memory are not touched after the await
CreateSaved(c) ==
  /\ pure.calls[c].pc = "saving"
  /\ pure' = [pure EXCEPT !.calls[c].pc = "done"]
  /\ UNCHANGED <<settings, rankerLoaded, viewText, snapshot, now, op, heap, send>>

\* expandContextPackReferences(text) between the steps of the creations
OverlapExpand ==
  /\ pure.expands < MaxOverlapExpands
  /\ \E text \in OverlapTexts :
       \E r \in {expandContextPackReferences(settings, text, now + 1, rankerLoaded)} :
         /\ settings' = [settings EXCEPT !.contextPacks = r.packs]
         /\ pure' = [pure EXCEPT
                       !.expands = @ + 1,
                       !.log = IF r.saved
                               THEN Append(@, [kind |-> "expand", pack |-> <<>>,
                                               ids |-> r.expandedIds, t |-> now + 1])
                               ELSE @]
  /\ now' = now + 1
  /\ UNCHANGED <<rankerLoaded, viewText, snapshot, op, heap, send>>

NextOverlap ==
  \/ \E c \in 1..MaxCreateCalls : CreateBegins(c) \/ CreateStores(c) \/ CreateSaved(c)
  \/ OverlapExpand

SpecOverlap == InitOverlap /\ [][NextOverlap]_vars

\* the packs with lastUsedAt set to t on the packs of ids
RECURSIVE TouchAll(_, _, _)
TouchAll(packs, ids, t) ==
  IF ids = <<>> THEN packs ELSE TouchAll(TouchPack(packs, Head(ids), t), Tail(ids), t)

\* the history after the store steps and expansions of log, one after the
\* other, beginning with packs
RECURSIVE Replay(_, _)
Replay(packs, log) ==
  IF log = <<>> THEN packs
  ELSE Replay(IF Head(log).kind = "create" THEN StorePack(packs, Head(log).pack)
              ELSE TouchAll(packs, Head(log).ids, Head(log).t),
              Tail(log))

\* the calls that have stored a pack
StoredCalls == {c \in 1..MaxCreateCalls : pure.calls[c].packId # ""}

\* C27: however the creations and an expansion overlap, the history is what
\* their store steps and the expansion give one after the other in the order
\* in which they ran: the pack of every call is in the history, unless a
\* later step stored a pack of the same id in its place, and no lastUsedAt
\* is lost.
C27_StoreStepsAtomic ==
  /\ settings.contextPacks = Replay(pure.initial, pure.log)
  /\ \A c \in StoredCalls :
       \E k \in 1..Len(settings.contextPacks) :
         /\ settings.contextPacks[k].id = pure.calls[c].packId
         /\ \/ settings.contextPacks[k] = pure.calls[c].pack
            \/ \E d \in StoredCalls \ {c} :
                 /\ pure.calls[d].packId = pure.calls[c].packId
                 /\ settings.contextPacks[k] = pure.calls[d].pack

\* two creations began before either stored, an expansion ran between their
\* store steps, and both packs and the expansion's lastUsedAt are in a full
\* history
C27_Witness ==
  /\ Len(pure.log) = 3
  /\ pure.log[1].kind = "create" /\ pure.log[2].kind = "expand" /\ pure.log[3].kind = "create"
  /\ pure.calls[2].before = pure.initial
  /\ pure.calls[1].packId # pure.calls[2].packId
  /\ Len(settings.contextPacks) = ContextPackHistoryCap
  /\ settings.contextPacks[1] = pure.calls[2].pack
  /\ settings.contextPacks[2] = pure.calls[1].pack
  /\ \E k \in 1..Len(settings.contextPacks) :
       settings.contextPacks[k].id = "p1" /\ settings.contextPacks[k].lastUsedAt = pure.log[2].t

\* C27 as stated: the pack of every call that stored one is in the history
\* (the creations of one behaviour are fewer than the cap).  Two calls that
\* store in the same millisecond and draw the same random part build the same
\* id, and the later store step removes the pack of the earlier one.
C27_BothPacksInHistory ==
  \A c \in StoredCalls :
    \E k \in 1..Len(settings.contextPacks) : settings.contextPacks[k] = pure.calls[c].pack

\* two creations overlapped and stored packs of one id
C27_SameIdWitness ==
  /\ StoredCalls = {1, 2}
  /\ pure.calls[2].before = pure.initial
  /\ pure.calls[1].packId = pure.calls[2].packId
  /\ pure.calls[1].pack # pure.calls[2].pack

(***************************************************************************)
(* Reference tokens character by character (specification SpecToken): the  *)
(* id of a created pack, its reference, and the scan of a text that holds   *)
(* the reference.  A text is a sequence of characters here.                *)
(***************************************************************************)
MaxTokenCreates == 2   \* creations per behaviour

UpperLetters ==
  <<"A", "B", "C", "D", "E", "F", "G", "H", "I", "J", "K", "L", "M", "N", "O", "P", "Q", "R",
    "S", "T", "U", "V", "W", "X", "Y", "Z">>

LowerOfUpper == [ch \in SeqSet(UpperLetters) |->
                   Digits36[10 + (CHOOSE i \in 1..26 : UpperLetters[i] = ch)]]
UpperOfLower == [ch \in SeqSet(SubSeq(Digits36, 11, 36)) |->
                   UpperLetters[(CHOOSE i \in 11..36 : Digits36[i] = ch) - 10]]

\* ch.toLowerCase() of one character
ToLowerChar(ch) == IF ch \in DOMAIN LowerOfUpper THEN LowerOfUpper[ch] ELSE ch

\* ch.toUpperCase() of one character
ToUpperChar(ch) == IF ch \in DOMAIN UpperOfLower THEN UpperOfLower[ch] ELSE ch

ToLowerChars(chars) == AsSeq([i \in 1..Len(chars) |-> ToLowerChar(chars[i])])
ToUpperChars(chars) == AsSeq([i \in 1..Len(chars) |-> ToUpperChar(chars[i])])

\* variant: a character compared as it is written (a regular expression
\* without the flag i)
KeepCase(ch) == ch

\* the canonical form under which the flag i compares two characters
FoldCase(ch) == ToLowerChar(ch)

\* "@context-pack(" of CONTEXT_PACK_REF_REGEX
RefLiteral == <<"@", "c", "o", "n", "t", "e", "x", "t", "-", "p", "a", "c", "k", "(">>

\* [a-z0-9] and [a-z0-9\-] under the flags of the scan
IsIdStart(ch) == FoldCase(ch) \in SeqSet(Digits36)
IsIdChar(ch) == IsIdStart(ch) \/ ch = "-"

\* the length of the longest run of id characters of text that begins at i
IdRun(text, i) ==
  (CHOOSE j \in i..(Len(text) + 1) :
     /\ j <= Len(text) => ~IsIdChar(text[j])
     /\ \A k \in i..(j - 1) : IsIdChar(text[k])) - i

\* regex.exec at index i: the index of the closing bracket of the match of
\* CONTEXT_PACK_REF_REGEX that begins at i, or 0.  No shorter run is tried
\* with success, since the closing bracket is no id character.
MatchRefAt(text, i) ==
  IF /\ i + Len(RefLiteral) <= Len(text)
     /\ \A k \in 1..Len(RefLiteral) : FoldCase(text[i + k - 1]) = RefLiteral[k]
     /\ IsIdStart(text[i + Len(RefLiteral)])
     /\ IdRun(text, i + Len(RefLiteral)) >= 6
     /\ i + Len(RefLiteral) + IdRun(text, i + Len(RefLiteral)) <= Len(text)
     /\ text[i + Len(RefLiteral) + IdRun(text, i + Len(RefLiteral))] = ")"
  THEN i + Len(RefLiteral) + IdRun(text, i + Len(RefLiteral))
  ELSE 0

\* the loop of getContextPackIdsFromText from index i on, ends[i] being
\* MatchRefAt(text, i): a match is taken where the leftmost one begins, and
\* the scan goes on behind it
RECURSIVE ScanRefIds(_, _, _, _)
ScanRefIds(text, ends, i, ids) ==
  IF i > Len(text) THEN ids
  ELSE IF ends[i] = 0 THEN ScanRefIds(text, ends, i + 1, ids)
  ELSE ScanRefIds(text, ends, ends[i] + 1,
                  TheOne({IF InSeq(ids, id) THEN ids ELSE Append(ids, id) :
                           id \in {ToLowerChars(SubSeq(text, i + Len(RefLiteral),
                                                       ends[i] - 1))}}))

\* getContextPackIdsFromText(text) on the characters of text
getContextPackIdsFromChars(text) ==
  TheOne({TheOne({ScanRefIds(target, ends, 1, <<>>) :
                   ends \in {AsSeq([i \in 1..Len(target) |-> MatchRefAt(target, i)])}}) :
           target \in {sanitizeString(text)}})

\* findContextPack(packId) on the characters of packId
findContextPackChars(packs, packId) ==
  findContextPack(packs, Concat(ToLowerChars(sanitizeString(packId))))

\* buildContextPackReference(packId) on the characters of packId
ReferenceChars(packId) == RefLiteral \o packId \o <<")">>

\* values of Date.now() and of Math.floor(Math.random() * 36 ** 4)
TokenTimes == {35, 36, 2147483647}
TokenRandoms == {0, 1679615}

\* what stands before and behind the reference in the scanned text
TokenPrefixes ==
  { <<>>, <<"a", " ">>, <<"x", "@">>, RefLiteral, RefLiteral \o <<"a", "b", "c", "d", "e", "f">>,
    RefLiteral \o <<"A", "b", "c", "-", "e", "f", ")">>, <<")", "-">> }
TokenSuffixes == { <<>>, <<")">>, <<"-", "a">>, <<" ", "b">>, <<"(", "c", "p">> }

\* the reference as the user may write it
TokenCases == {"asBuilt", "upper"}
InCase(chars, case) == IF case = "upper" THEN ToUpperChars(chars) ELSE chars

NoScan == [kind |-> "none", call |-> 0, text |-> <<>>, ids |-> <<>>]

InitToken ==
  /\ settings = StoreSettings(<<PackB, PackA>>, NotANumber)
  /\ pure = [created |-> <<>>, last |-> NoScan]
  /\ rankerLoaded = TRUE
  /\ viewText = <<>>
  /\ snapshot = NoSnapshot
  /\ now = 0
  /\ op = <<NoOp, NoOp>>
  /\ heap = <<>>
  /\ send = NoSend

\* createContextPackFromSelections(folderPaths, filePaths) at time t, the
\* calls taking the selections of OverlapSelections in turn
TokenCreate ==
  /\ Len(pure.created) < MaxTokenCreates
  /\ \E t \in {u \in TokenTimes : u >= now}, rand \in TokenRandoms :
       \E sel \in {OverlapSelections[(Len(pure.created) % Len(OverlapSelections)) + 1]} :
         \E r \in {createContextPackFromSelections(settings, VaultFiles, VaultNotes, {},
                                                   sel.folders, sel.files, t, rand)} :
           /\ settings' = [settings EXCEPT !.contextPacks = r.packs]
           /\ pure' = [pure EXCEPT
                         !.created = Append(@, [id |-> PackIdChars(t, rand),
                                                packId |-> r.result.packId,
                                                pack |-> r.packs[1]]),
                         !.last = NoScan]
           /\ now' = t
  /\ UNCHANGED <<rankerLoaded, viewText, snapshot, op, heap, send>>

\* getContextPackIdsFromText(text) of a text that holds the reference of the
\* pack of call c; the behaviour keeps the last scan since the last creation
TokenScan ==
  /\ pure.last.kind = "none"
  /\ \E c \in 1..Len(pure.created), prefix \in TokenPrefixes, suffix \in TokenSuffixes,
        case \in TokenCases :
       \E text \in {prefix \o InCase(ReferenceChars(pure.created[c].id), case) \o suffix} :
         pure' = [pure EXCEPT
                    !.last = [kind |-> "scan", call |-> c, text |-> text,
                              ids |-> getContextPackIdsFromChars(text)]]
  /\ UNCHANGED <<settings, rankerLoaded, viewText, snapshot, now, op, heap, send>>

NextToken == TokenCreate \/ TokenScan

SpecToken == InitToken /\ [][NextToken]_vars

\* s matches [a-z0-9][a-z0-9-]{5,} as a whole
IsTokenId(s) ==
  /\ Len(s) >= 6
  /\ s[1] \in SeqSet(Digits36)
  /\ \A k \in 1..Len(s) : s[k] = "-" \/ s[k] \in SeqSet(Digits36)

InHistory(pack) == \E k \in 1..Len(settings.contextPacks) : settings.contextPacks[k] = pack

\* C28: the id of every created pack matches [a-z0-9][a-z0-9-]{5,} and is the
\* id of the stored pack; the scan of a text that holds the pack's reference,
\* in the letter case in which it was built or in upper case, with anything
\* before and behind it, gives the id, and findContextPack on the id the scan
\* gives returns the pack while it is in the history.
C28_ReferenceFoundInAnyText ==
  /\ \A c \in 1..Len(pure.created) :
       /\ IsTokenId(pure.created[c].id)
       /\ Concat(pure.created[c].id) = pure.created[c].packId
       /\ pure.created[c].pack.id = pure.created[c].packId
  /\ pure.last.kind = "scan" =>
       /\ InSeq(pure.last.ids, pure.created[pure.last.call].id)
       /\ \A k \in 1..Len(pure.last.ids) :
            pure.last.ids[k] = pure.created[pure.last.call].id
              /\ InHistory(pure.created[pure.last.call].pack)
            => findContextPackChars(settings.contextPacks, pure.last.ids[k])
                 = pure.created[pure.last.call].pack

\* the reference of a created pack that is in the history was written in
\* upper case behind an unfinished reference, and the scan gave its id
C28_Witness ==
  /\ pure.last.kind = "scan"
  /\ InHistory(pure.created[pure.last.call].pack)
  /\ SubSeq(pure.last.text, 1, Len(RefLiteral) + 1) = RefLiteral \o <<"@">>
  /\ pure.last.text[Len(RefLiteral) + 2] = "C"
  /\ pure.last.ids = <<pure.created[pure.last.call].id>>

\* the reference of a pack that a later creation of the same id has replaced
\* was scanned
C28_ReplacedWitness ==
  /\ pure.last.kind = "scan"
  /\ ~InHistory(pure.created[pure.last.call].pack)
  /\ Len(pure.last.ids) = 2

(***************************************************************************)
(* The patch passes over the send methods and the calls of the methods     *)
(* (specification SpecPatch).  A method of a target is a function the host *)
(* gave it, under the wrappers patchContextSendMethodOnTarget has put      *)
(* around it; the call of an AsyncFunction original waits for the model    *)
(* sync promise, which always settles.                                     *)
(***************************************************************************)
MaxPatchPasses == 3   \* runs of patchContextPackSendHooks per behaviour
MaxSendCalls == 2     \* calls of send methods per behaviour

\* the targets of the passes (the plugin and a chat view) and two of the
\* sendMethodCandidates
PatchTargets == {"plugin", "view"}
PatchMethods == {"sendMessage", "handleSubmit"}
PatchSlots == PatchTargets \X PatchMethods

\* target[methodName] when the target has no such function
NoMethod == [fn |-> FALSE, isAsync |-> FALSE, wrappers |-> 0, patched |-> FALSE]

\* a function of the host: isAsync is original.constructor.name === "AsyncFunction"
HostMethod(isAsync) == [fn |-> TRUE, isAsync |-> isAsync, wrappers |-> 0, patched |-> FALSE]

\* variant: a pass that wraps whatever function it finds
patchWithoutPatchedCheck(cell) ==
  IF ~cell.fn THEN cell ELSE [cell EXCEPT !.wrappers = @ + 1, !.patched = TRUE]

\* patchContextSendMethodOnTarget(target, methodName, viewRef): cell is
\* target[methodName] before, the result is target[methodName] afterwards
patchContextSendMethodOnTarget(cell) ==
  IF ~cell.fn THEN cell
  ELSE IF cell.patched THEN cell
  ELSE [cell EXCEPT !.wrappers = @ + 1, !.patched = TRUE]

\* the payloads of the calls: a request, a frozen request, no argument
PatchCalls ==
  { [h |-> ExamplePayload, args |-> <<"@1">>],
    [h |-> FrozenPayload, args |-> <<"@1">>],
    [h |-> <<>>, args |-> <<>>] }

PatchRuntimeContext ==
  [provider |-> "ollama", model |-> "m1", wireApi |-> "responses", isVision |-> FALSE]

NoCall ==
  [stage |-> "idle", slot |-> <<"plugin", "sendMessage">>, wrappers |-> 0, args |-> <<>>,
   trace |-> <<>>, invokedWith |-> <<>>]

\* the first n wrappers of a called method, the outermost first: each runs
\* prepareSendPreflight and then calls what it wraps, unless the preflight
\* threw
RECURSIVE RunPreflights(_, _, _, _)
RunPreflights(n, s, sendArgs, t) ==
  IF n = 0 \/ Threw(s.heap) THEN s
  ELSE RunPreflights(
         n - 1,
         TheOne({[text |-> pre.text, snapshot |-> pre.snapshot, packs |-> pre.packs,
                  heap |-> pre.heap,
                  trace |-> Append(s.trace, IF Threw(pre.heap) THEN "preflight threw"
                                            ELSE "preflight")] :
                  pre \in {prepareSendPreflight(
                             [settings EXCEPT !.contextPacks = s.packs], s.text, s.snapshot,
                             t, rankerLoaded, s.heap, sendArgs, PatchRuntimeContext)}}),
         sendArgs, t)

InitPatch ==
  /\ settings = Settings(<<PackB, PackA>>, TRUE, FALSE, FALSE, TRUE, TRUE)
  /\ rankerLoaded = TRUE
  /\ viewText \in { <<"a">>, <<"a", SP, "@p1">> }
  /\ snapshot = NoSnapshot
  /\ now = 0
  /\ op = <<NoOp, NoOp>>
  /\ heap = <<>>
  /\ send = NoSend
  /\ \E async \in BOOLEAN :
       pure = [methods |-> [slot \in PatchSlots |->
                              IF slot = <<"plugin", "sendMessage">> THEN HostMethod(async)
                              ELSE NoMethod],
               viewOpen |-> FALSE, passes |-> 0, calls |-> 0, call |-> NoCall]

\* the host opens the chat view: getAllChatViews() holds it from now on
OpenView ==
  /\ ~pure.viewOpen
  /\ \E async \in BOOLEAN :
       pure' = [pure EXCEPT !.viewOpen = TRUE,
                            !.methods[<<"view", "sendMessage">>] = HostMethod(async),
                            !.methods[<<"view", "handleSubmit">>] = HostMethod(FALSE)]
  /\ UNCHANGED <<settings, rankerLoaded, viewText, snapshot, now, op, heap, send>>

\* patchContextPackSendHooks(): the pass of onLayoutReady or of the interval
\* of onload, over the plugin and over every open view
PatchPass ==
  /\ pure.passes < MaxPatchPasses
  /\ pure' = [pure EXCEPT
                !.passes = @ + 1,
                !.methods = [slot \in PatchSlots |->
                               IF slot[1] = "plugin" \/ pure.viewOpen
                               THEN patchContextSendMethodOnTarget(pure.methods[slot])
                               ELSE pure.methods[slot]]]
  /\ UNCHANGED <<settings, rankerLoaded, viewText, snapshot, now, op, heap, send>>

\* the host calls target[methodName](...args): the wrappers run their
\* preflights; then the original is called at once, or, if it is an
\* AsyncFunction, when the sync promise has settled
CallBegins ==
  /\ pure.call.stage \in {"idle", "done"}
  /\ pure.calls < MaxSendCalls
  /\ \E slot \in {x \in PatchSlots : pure.methods[x].fn}, c \in PatchCalls :
       \E r \in {RunPreflights(pure.methods[slot].wrappers,
                               [text |-> viewText, snapshot |-> snapshot,
                                packs |-> settings.contextPacks, heap |-> c.h,
                                trace |-> <<>>],
                               c.args, now + 1)} :
         /\ viewText' = r.text
         /\ snapshot' = r.snapshot
         /\ settings' = [settings EXCEPT !.contextPacks = r.packs]
         /\ heap' = r.heap
         /\ pure' = [pure EXCEPT
                       !.calls = @ + 1,
                       !.call = [stage |-> IF Threw(r.heap) THEN "done"
                                           ELSE IF pure.methods[slot].isAsync
                                                   /\ pure.methods[slot].wrappers > 0
                                           THEN "awaiting sync" ELSE "done",
                                 slot |-> slot, wrappers |-> pure.methods[slot].wrappers,
                                 args |-> c.args,
                                 trace |-> IF Threw(r.heap)
                                              \/ (pure.methods[slot].isAsync
                                                    /\ pure.methods[slot].wrappers > 0)
                                           THEN r.trace ELSE Append(r.trace, "original"),
                                 invokedWith |-> IF Threw(r.heap)
                                                    \/ (pure.methods[slot].isAsync
                                                          /\ pure.methods[slot].wrappers > 0)
                                                 THEN <<>> ELSE <<c.args>>]]
  /\ now' = now + 1
  /\ UNCHANGED <<rankerLoaded, op, send>>

\* preflight.syncPromise.catch(() => false).then(() => runOriginal())
OriginalRuns ==
  /\ pure.call.stage = "awaiting sync"
  /\ pure' = [pure EXCEPT !.call.stage = "done",
                          !.call.trace = Append(@, "original"),
                          !.call.invokedWith = Append(@, pure.call.args)]
  /\ UNCHANGED <<settings, rankerLoaded, viewText, snapshot, now, op, heap, send>>

NextPatch == OpenView \/ PatchPass \/ CallBegins \/ OriginalRuns

SpecPatch == InitPatch /\ [][NextPatch]_vars /\ WF_vars(OriginalRuns)

\* C29 (as stated): a method is never under more than one wrapper, and every
\* call of a wrapped method runs the preflight once and then, at once or when
\* the sync promise has settled, the original once with the arguments of the
\* call.
C29_PreflightThenOriginalOnce ==
  /\ [](\A slot \in PatchSlots : pure.methods[slot].wrappers <= 1)
  /\ []((pure.call.stage = "done" /\ pure.call.wrappers > 0) =>
          /\ pure.call.trace = <<"preflight", "original">>
          /\ pure.call.invokedWith = <<pure.call.args>>)
  /\ [](pure.call.stage = "awaiting sync" =>
          pure.call.trace = <<"preflight">> /\ pure.call.invokedWith = <<>>)
  /\ ((pure.call.stage = "awaiting sync") ~> (pure.call.stage = "done"))

\* What holds of the wrappers: a method is never under more than one; a call
\* of a wrapped method runs the preflight once, before anything else; unless
\* the preflight threw, the original runs once after it with the arguments of
\* the call, at once or when the sync promise has settled; and when the
\* preflight threw, the original is not called.
C29_WrappedOnceOriginalUnlessThrown ==
  /\ [](\A slot \in PatchSlots : pure.methods[slot].wrappers <= 1)
  /\ []((pure.call.stage = "done" /\ pure.call.wrappers > 0) =>
          \/ /\ pure.call.trace = <<"preflight", "original">>
             /\ pure.call.invokedWith = <<pure.call.args>>
          \/ /\ pure.call.trace = <<"preflight threw">>
             /\ pure.call.invokedWith = <<>>
             /\ Threw(heap))
  /\ [](pure.call.stage = "awaiting sync" =>
          pure.call.trace = <<"preflight">> /\ pure.call.invokedWith = <<>>)
  /\ ((pure.call.stage = "awaiting sync") ~> (pure.call.stage = "done"))

\* after three passes a wrapped AsyncFunction method of the view was called,
\* and the original ran with the arguments of the call
C29_Witness ==
  /\ pure.passes = MaxPatchPasses
  /\ pure.call.stage = "done"
  /\ pure.call.slot = <<"view", "sendMessage">>
  /\ pure.methods[pure.call.slot].isAsync
  /\ pure.call.wrappers = 1
  /\ pure.call.args = <<"@1">>
  /\ pure.call.trace = <<"preflight", "original">>

\* a wrapped method was called with the frozen request
C29_ThrownWitness ==
  /\ pure.call.stage = "done"
  /\ pure.call.wrappers = 1
  /\ pure.call.trace = <<"preflight threw">>

(***************************************************************************)
(* Two sends in a row (specification Spec)                                 *)
(***************************************************************************)
\* C30 (as stated): when prepareSendPreflight runs on a surface a second time
\* with no other operation between the two runs, the second run leaves the
\* text as it is, with no more guard sentences than before, and leaves the
\* snapshot as it is.
C30_SecondPreflightChangesNothing ==
  (op[1].name = "send" /\ op[2].name = "send") =>
    /\ op[2].post = op[2].pre
    /\ Occurrences(op[2].post, INLINE_CONTEXT_ONLY_GUARD)
         = Occurrences(op[2].pre, INLINE_CONTEXT_ONLY_GUARD)
    /\ snapshot = op[2].snapPre

=============================================================================
